---- MODULE Spec2Model ----
(***************************************************************************)
(* Model of the CacheManager class of src/utils/cacheManager.js: the       *)
(* response cache (a Map from cache key to entry) and the per-session      *)
(* undo/redo history (a Map from session id to {entries, currentIndex}).   *)
(* Strings that are hashed are sequences of UTF-16 code units; other       *)
(* strings (keys, session ids, prompts) are TLA+ strings.                  *)
(***************************************************************************)
EXTENDS Integers, Sequences, FiniteSets, TLC

VARIABLES cache, sessionHistory, now, last, requests, inputComponent

vars == <<cache, sessionHistory, now, last, requests, inputComponent>>

\* ------------------------------------------------------------------ bounds
\* Most entries the model stores, over the cache and all session logs.
MaxEntries == 3
\* The same, where cache and session history run together.
MaxStored == 2
\* The same, for the cache behind the /cache endpoints.
MaxApiStored == 1
\* Largest value of the clock Date.now() reads.
MaxTime == 1
\* Longest text handed to generateDiff.
MaxTextLen == 3
\* Most files in a file set handed to compareFiles.
MaxFiles == 2
\* Longest text handed to generateCodeHash on its own.
MaxHashLen == 6

\* ------------------------------------------------------------------ inputs
\* JavaScript null and undefined.
Null == [null |-> TRUE]
Undefined == [undefined |-> TRUE]
\* A JavaScript number, where null may stand in its place.
Num(n) == [num |-> n]
\* ToBoolean of null, undefined, a number, or an object (always true).
Truthy(v) == v \notin {Null, Undefined, Num(0)}
\* A session identifier that was never supplied (undefined).
Absent == "undefined"

Keys == {"k1", "k2"}
Sessions == {"s1", "s2"}
\* "a", "ab": code bodies as sequences of code units.
CodeA == <<97>>
CodeB == <<97, 98>>
FilesA == <<[path |-> "index.html", content |-> CodeA]>>
FilesB == <<[path |-> "index.html", content |-> CodeB],
            [path |-> "style.css", content |-> CodeA]>>
\* The (code, files, prompt) triples the callers pass.
Payloads ==
  { [code |-> CodeA, files |-> FilesA, prompt |-> "p1"],
    [code |-> CodeB, files |-> FilesB, prompt |-> "p2"] }

\* ------------------------------------------------------------ pure helpers
HexDigits == <<"0", "1", "2", "3", "4", "5", "6", "7",
               "8", "9", "a", "b", "c", "d", "e", "f">>

RECURSIVE toString16(_)
\* Number.prototype.toString(16) of a non-negative integer below 2^16.
toString16(n) ==
  IF n < 16 THEN HexDigits[n + 1]
  ELSE toString16(n \div 16) \o HexDigits[(n % 16) + 1]

\* Four hexadecimal digits of a 16-bit half, leading zeros kept.
Pad4(n) ==
  HexDigits[(n \div 4096) + 1] \o HexDigits[((n \div 256) % 16) + 1]
    \o HexDigits[((n \div 16) % 16) + 1] \o HexDigits[(n % 16) + 1]

RECURSIVE hashLoop_noSubtract(_, _, _)
\* The loop with hash = ((hash << 5) + char) | 0, the subtraction left out.
hashLoop_noSubtract(code, i, h) ==
  IF i > Len(code) THEN h
  ELSE LET lo == 32 * h[2] + code[i]
           hi == 32 * h[1] + (lo \div 65536)
       IN  hashLoop_noSubtract(code, i + 1, <<hi % 65536, lo % 65536>>)

RECURSIVE hashLoop(_, _, _)
\* The loop of generateCodeHash: hash = ((hash << 5) - hash + char) | 0.
\* The 32-bit pattern of hash is kept as two 16-bit halves <<hi, lo>>.
hashLoop(code, i, h) ==
  IF i > Len(code) THEN h
  ELSE LET lo == 31 * h[2] + code[i]
           hi == 31 * h[1] + (lo \div 65536)
       IN  hashLoop(code, i + 1, <<hi % 65536, lo % 65536>>)

\* Math.abs of the signed 32-bit value with pattern <<hi, lo>>.
MathAbs(h) ==
  IF h[1] < 32768 THEN h
  ELSE IF h[2] = 0 THEN <<65536 - h[1], 0>>
       ELSE <<65535 - h[1], 65536 - h[2]>>

generateCodeHash(code) ==
  LET a == MathAbs(hashLoop(code, 1, <<0, 0>>))
  IN  IF a[1] = 0 THEN toString16(a[2]) ELSE toString16(a[1]) \o Pad4(a[2])

\* Array.prototype.slice(start, end) for 0 <= start, 0 <= end.
slice(arr, start, end) ==
  LET e == IF end > Len(arr) THEN Len(arr) ELSE end
  IN  SubSeq(arr, start + 1, e)

\* -------------------------------------------------------- Cache key
\* What a call that throws leaves in place of its result.
Thrown == [throws |-> "InvalidCharacterError"]

\* The base64 alphabet of btoa.
B64 == <<"A", "B", "C", "D", "E", "F", "G", "H", "I", "J", "K", "L", "M",
         "N", "O", "P", "Q", "R", "S", "T", "U", "V", "W", "X", "Y", "Z",
         "a", "b", "c", "d", "e", "f", "g", "h", "i", "j", "k", "l", "m",
         "n", "o", "p", "q", "r", "s", "t", "u", "v", "w", "x", "y", "z",
         "0", "1", "2", "3", "4", "5", "6", "7", "8", "9", "+", "/">>

RECURSIVE btoaFrom(_, _)
\* The base64 characters of the bytes of b from position i on, "=" padded.
btoaFrom(b, i) ==
  LET n == Len(b) - i + 1
  IN  IF n <= 0 THEN <<>>
      ELSE IF n = 1
      THEN <<B64[(b[i] \div 4) + 1], B64[((b[i] % 4) * 16) + 1], "=", "=">>
      ELSE IF n = 2
      THEN <<B64[(b[i] \div 4) + 1],
             B64[((b[i] % 4) * 16 + (b[i + 1] \div 16)) + 1],
             B64[((b[i + 1] % 16) * 4) + 1], "=">>
      ELSE <<B64[(b[i] \div 4) + 1],
             B64[((b[i] % 4) * 16 + (b[i + 1] \div 16)) + 1],
             B64[((b[i + 1] % 16) * 4 + (b[i + 2] \div 64)) + 1],
             B64[(b[i + 2] % 64) + 1]>> \o btoaFrom(b, i + 3)

\* btoa(text): it throws when a code unit is above 0xFF.
btoa(text) ==
  IF \E i \in 1..Len(text) : text[i] > 255 THEN Thrown
  ELSE [chars |-> btoaFrom(text, 1)]

RECURSIVE replaceUnsafe(_, _)
\* .replace(/[+/=]/g, ...) from position i on, joined into one string:
\* "+" becomes "-", "/" becomes "_", "=" is dropped.
replaceUnsafe(chars, i) ==
  IF i > Len(chars) THEN ""
  ELSE (IF chars[i] = "+" THEN "-"
        ELSE IF chars[i] = "/" THEN "_"
        ELSE IF chars[i] = "=" THEN ""
        ELSE chars[i]) \o replaceUnsafe(chars, i + 1)

\* The code unit of "|".
Bar == 124

\* generateCacheKey(prompt, imageAnalysis): [key |-> the key], or Thrown.
generateCacheKey(prompt, imageAnalysis) ==
  LET combined == prompt \o <<Bar>> \o imageAnalysis
      encoded == btoa(combined)
  IN  IF encoded = Thrown THEN Thrown
      ELSE [key |-> replaceUnsafe(encoded.chars, 1)]

\* ------------------------------------------------------------------- Map
\* A JavaScript Map is the sequence of its [key, value] pairs in insertion
\* order.
MapKeys(m) == [i \in 1..Len(m) |-> m[i].key]
MapHas(m, k) == \E i \in 1..Len(m) : m[i].key = k
MapGet(m, k) ==
  IF MapHas(m, k) THEN m[CHOOSE i \in 1..Len(m) : m[i].key = k].value
  ELSE Undefined
\* Map.prototype.set that writes the value under every key already present.
MapSet_everyKey(m, k, v) ==
  IF MapHas(m, k)
  THEN [i \in 1..Len(m) |-> [key |-> m[i].key, value |-> v]]
  ELSE Append([i \in 1..Len(m) |-> [key |-> m[i].key, value |-> v]],
              [key |-> k, value |-> v])

\* Map.prototype.set: an existing key keeps its place.
MapSet(m, k, v) ==
  IF MapHas(m, k)
  THEN [i \in 1..Len(m) |-> IF m[i].key = k THEN [key |-> k, value |-> v]
                                             ELSE m[i]]
  ELSE Append(m, [key |-> k, value |-> v])

\* --------------------------------------------------------- Response cache
\* setCacheEntry with `files && []` written for `files || []`.
setCacheEntry_andFiles(c, cacheKey, code, files, prompt, t) ==
  LET entry == [timestamp |-> t, code |-> code, files |-> <<>>,
                prompt |-> prompt, hash |-> generateCodeHash(code)]
  IN  [cache |-> MapSet(c, cacheKey, entry), ret |-> entry]

\* setCacheEntry that leaves an entry already stored under the key in place.
setCacheEntry_keepsOld(c, cacheKey, code, files, prompt, t) ==
  LET entry == [timestamp |-> t, code |-> code, files |-> files,
                prompt |-> prompt, hash |-> generateCodeHash(code)]
  IN  [cache |-> IF MapHas(c, cacheKey) THEN c ELSE MapSet(c, cacheKey, entry),
       ret |-> entry]

\* setCacheEntry that keys the entry by its prompt, not by cacheKey.
setCacheEntry_promptKey(c, cacheKey, code, files, prompt, t) ==
  LET entry == [timestamp |-> t, code |-> code, files |-> files,
                prompt |-> prompt, hash |-> generateCodeHash(code)]
  IN  [cache |-> MapSet(c, IF prompt = "p1" THEN "k1" ELSE "k2", entry),
       ret |-> entry]

\* setCacheEntry(cacheKey, code, files, prompt) at time t: the cache
\* afterwards and the entry returned. files is always an array here (truthy),
\* so `files || []` is files.
setCacheEntry(c, cacheKey, code, files, prompt, t) ==
  LET entry == [timestamp |-> t, code |-> code, files |-> files,
                prompt |-> prompt, hash |-> generateCodeHash(code)]
  IN  [cache |-> MapSet(c, cacheKey, entry), ret |-> entry]

getCacheEntry(c, cacheKey) ==
  LET v == MapGet(c, cacheKey) IN IF Truthy(v) THEN v ELSE Null

isCached(c, cacheKey) == MapHas(c, cacheKey)

RECURSIVE MathMin(_)
MathMin(S) ==
  LET x == CHOOSE y \in S : TRUE
  IN  IF S = {x} THEN x
      ELSE LET r == MathMin(S \ {x}) IN IF x < r THEN x ELSE r

RECURSIVE MathMax(_)
MathMax(S) ==
  LET x == CHOOSE y \in S : TRUE
  IN  IF S = {x} THEN x
      ELSE LET r == MathMax(S \ {x}) IN IF x > r THEN x ELSE r

\* getCacheStats with Math.max written for Math.min in oldestEntry.
getCacheStats_oldestMax(c, hist) ==
  LET stamps == {c[i].value.timestamp : i \in 1..Len(c)}
  IN  [totalEntries |-> Len(c),
       totalSessions |-> Cardinality(DOMAIN hist),
       cacheKeys |-> MapKeys(c),
       oldestEntry |-> IF Len(c) > 0 THEN Num(MathMax(stamps)) ELSE Null,
       newestEntry |-> IF Len(c) > 0 THEN Num(MathMax(stamps)) ELSE Null]

getCacheStats(c, hist) ==
  LET stamps == {c[i].value.timestamp : i \in 1..Len(c)}
  IN  [totalEntries |-> Len(c),
       totalSessions |-> Cardinality(DOMAIN hist),
       cacheKeys |-> MapKeys(c),
       oldestEntry |-> IF Len(c) > 0 THEN Num(MathMin(stamps)) ELSE Null,
       newestEntry |-> IF Len(c) > 0 THEN Num(MathMax(stamps)) ELSE Null]

\* clearCache that reads a missing age as the age 0.
clearCache_nullAsZero(c, olderThanMs, t) ==
  LET age == IF olderThanMs = Null THEN 0 ELSE olderThanMs.num
      keep(e) == ~(t - e.value.timestamp > age)
  IN  SelectSeq(c, keep)

\* clearCache(olderThanMs) at time t: the cache afterwards.
clearCache(c, olderThanMs, t) ==
  IF ~Truthy(olderThanMs) THEN <<>>
  ELSE LET keep(e) == ~(t - e.value.timestamp > olderThanMs.num)
       IN  SelectSeq(c, keep)

\* ---------------------------------------------------------- Line diff
\* The code unit of "\n".
Newline == 10

RECURSIVE split(_, _, _)
\* String.prototype.split("\n"): text from position i on, cur being the line
\* read so far. The result always has at least one line.
split(text, i, cur) ==
  IF i > Len(text) THEN <<cur>>
  ELSE IF text[i] = Newline THEN <<cur>> \o split(text, i + 1, <<>>)
  ELSE split(text, i + 1, Append(cur, text[i]))

\* lines[i] || "" for the 0-based index i: a missing line reads as "".
lineAt(lines, i) == IF i + 1 <= Len(lines) THEN lines[i + 1] ELSE <<>>

RECURSIVE diffLoop_noRemove(_, _, _, _)
\* The loop with a type that is never "remove".
diffLoop_noRemove(oldLines, newLines, i, maxLines) ==
  IF i >= maxLines THEN <<>>
  ELSE LET oldLine == lineAt(oldLines, i)
           newLine == lineAt(newLines, i)
           rest == diffLoop_noRemove(oldLines, newLines, i + 1, maxLines)
       IN  IF oldLine # newLine
           THEN <<[lineNumber |-> i + 1,
                   type |-> IF oldLine = <<>> THEN "add" ELSE "modify",
                   oldContent |-> oldLine,
                   newContent |-> newLine]>> \o rest
           ELSE rest

RECURSIVE diffLoop(_, _, _, _)
\* The loop of generateDiff from the 0-based index i up to maxLines - 1.
diffLoop(oldLines, newLines, i, maxLines) ==
  IF i >= maxLines THEN <<>>
  ELSE LET oldLine == lineAt(oldLines, i)
           newLine == lineAt(newLines, i)
           rest == diffLoop(oldLines, newLines, i + 1, maxLines)
       IN  IF oldLine # newLine
           THEN <<[lineNumber |-> i + 1,
                   type |-> IF oldLine = <<>> THEN "add"
                            ELSE IF newLine = <<>> THEN "remove"
                            ELSE "modify",
                   oldContent |-> oldLine,
                   newContent |-> newLine]>> \o rest
           ELSE rest

\* generateDiff with a loop that stops at the last line of the new text.
generateDiff_newLinesOnly(oldCode, newCode) ==
  IF oldCode = newCode
  THEN [hasDifferences |-> FALSE,
        oldHash |-> generateCodeHash(oldCode),
        newHash |-> generateCodeHash(newCode),
        changes |-> <<>>]
  ELSE LET oldLines == split(oldCode, 1, <<>>)
           newLines == split(newCode, 1, <<>>)
           changes == diffLoop(oldLines, newLines, 0, Len(newLines))
       IN  [hasDifferences |-> TRUE,
            oldHash |-> generateCodeHash(oldCode),
            newHash |-> generateCodeHash(newCode),
            changes |-> changes,
            changedLinesCount |-> Len(changes),
            totalLines |-> Len(newLines)]

\* generateDiff with hasDifferences read off the change list.
generateDiff_differsByChanges(oldCode, newCode) ==
  LET oldLines == split(oldCode, 1, <<>>)
      newLines == split(newCode, 1, <<>>)
      maxLines == IF Len(oldLines) > Len(newLines) THEN Len(oldLines)
                  ELSE Len(newLines)
      changes == diffLoop(oldLines, newLines, 0, maxLines)
  IN  IF oldCode = newCode
      THEN [hasDifferences |-> FALSE,
            oldHash |-> generateCodeHash(oldCode),
            newHash |-> generateCodeHash(newCode),
            changes |-> <<>>]
      ELSE [hasDifferences |-> Len(changes) > 0,
            oldHash |-> generateCodeHash(oldCode),
            newHash |-> generateCodeHash(newCode),
            changes |-> changes,
            changedLinesCount |-> Len(changes),
            totalLines |-> Len(newLines)]

\* generateDiff without the early return for identical texts.
generateDiff_noEarlyReturn(oldCode, newCode) ==
  LET oldLines == split(oldCode, 1, <<>>)
      newLines == split(newCode, 1, <<>>)
      maxLines == IF Len(oldLines) > Len(newLines) THEN Len(oldLines)
                  ELSE Len(newLines)
      changes == diffLoop(oldLines, newLines, 0, maxLines)
  IN  [hasDifferences |-> TRUE,
       oldHash |-> generateCodeHash(oldCode),
       newHash |-> generateCodeHash(newCode),
       changes |-> changes,
       changedLinesCount |-> Len(changes),
       totalLines |-> Len(newLines)]

generateDiff(oldCode, newCode) ==
  IF oldCode = newCode
  THEN [hasDifferences |-> FALSE,
        oldHash |-> generateCodeHash(oldCode),
        newHash |-> generateCodeHash(newCode),
        changes |-> <<>>]
  ELSE LET oldLines == split(oldCode, 1, <<>>)
           newLines == split(newCode, 1, <<>>)
           maxLines == IF Len(oldLines) > Len(newLines) THEN Len(oldLines)
                       ELSE Len(newLines)
           changes == diffLoop(oldLines, newLines, 0, maxLines)
       IN  [hasDifferences |-> TRUE,
            oldHash |-> generateCodeHash(oldCode),
            newHash |-> generateCodeHash(newCode),
            changes |-> changes,
            changedLinesCount |-> Len(changes),
            totalLines |-> Len(newLines)]

\* --------------------------------------------------------- File comparison
RECURSIVE fileMapFrom_firstWins(_, _)
\* A map of the files in which a path that occurs twice keeps its first file.
fileMapFrom_firstWins(files, i) ==
  IF i = 0 THEN <<>>
  ELSE LET m == fileMapFrom_firstWins(files, i - 1)
       IN  IF MapHas(m, files[i].path) THEN m
           ELSE MapSet(m, files[i].path, files[i])

RECURSIVE fileMapFrom(_, _)
\* new Map(files.map((f) => [f.path, f])) for the files from position i on:
\* a path that occurs twice keeps its first place and its last file.
fileMapFrom(files, i) ==
  IF i = 0 THEN <<>>
  ELSE MapSet(fileMapFrom(files, i - 1), files[i].path, files[i])

fileMap(files) == fileMapFrom(files, Len(files))

RECURSIVE newFilesLoop_noUnchanged(_, _, _)
\* The first loop without the content test: a path in both sets is modified.
newFilesLoop_noUnchanged(oldFileMap, newFileMap, i) ==
  IF i = 0 THEN [added |-> <<>>, modified |-> <<>>, unchanged |-> <<>>]
  ELSE LET comparison == newFilesLoop_noUnchanged(oldFileMap, newFileMap, i - 1)
           path == newFileMap[i].key
           newFile == newFileMap[i].value
           oldFile == MapGet(oldFileMap, path)
       IN  IF ~Truthy(oldFile)
           THEN [comparison EXCEPT !.added =
                   Append(@, [path |-> path, content |-> newFile.content,
                              language |-> newFile.language])]
           ELSE [comparison EXCEPT !.modified =
                   Append(@, [path |-> path,
                              oldContent |-> oldFile.content,
                              newContent |-> newFile.content,
                              diff |-> generateDiff(oldFile.content,
                                                    newFile.content)])]

RECURSIVE newFilesLoop(_, _, _)
\* The first loop of compareFiles, over the entries of newFileMap up to the
\* i-th: the added, modified and unchanged lists.
newFilesLoop(oldFileMap, newFileMap, i) ==
  IF i = 0 THEN [added |-> <<>>, modified |-> <<>>, unchanged |-> <<>>]
  ELSE LET comparison == newFilesLoop(oldFileMap, newFileMap, i - 1)
           path == newFileMap[i].key
           newFile == newFileMap[i].value
           oldFile == MapGet(oldFileMap, path)
       IN  IF ~Truthy(oldFile)
           THEN [comparison EXCEPT !.added =
                   Append(@, [path |-> path, content |-> newFile.content,
                              language |-> newFile.language])]
           ELSE IF oldFile.content # newFile.content
           THEN [comparison EXCEPT !.modified =
                   Append(@, [path |-> path,
                              oldContent |-> oldFile.content,
                              newContent |-> newFile.content,
                              diff |-> generateDiff(oldFile.content,
                                                    newFile.content)])]
           ELSE [comparison EXCEPT !.unchanged = Append(@, path)]

RECURSIVE oldFilesLoop_hasOld(_, _, _)
\* The second loop with the has test made on the old map: no path is removed.
oldFilesLoop_hasOld(oldFileMap, newFileMap, i) ==
  IF i = 0 THEN <<>>
  ELSE LET removed == oldFilesLoop_hasOld(oldFileMap, newFileMap, i - 1)
           path == oldFileMap[i].key
           oldFile == oldFileMap[i].value
       IN  IF ~MapHas(oldFileMap, path)
           THEN Append(removed, [path |-> path, content |-> oldFile.content])
           ELSE removed

RECURSIVE oldFilesLoop_all(_, _, _)
\* The second loop without the has test: every old path is removed.
oldFilesLoop_all(oldFileMap, newFileMap, i) ==
  IF i = 0 THEN <<>>
  ELSE Append(oldFilesLoop_all(oldFileMap, newFileMap, i - 1),
              [path |-> oldFileMap[i].key,
               content |-> oldFileMap[i].value.content])

RECURSIVE oldFilesLoop(_, _, _)
\* The second loop of compareFiles, over the entries of oldFileMap up to the
\* i-th: the removed list.
oldFilesLoop(oldFileMap, newFileMap, i) ==
  IF i = 0 THEN <<>>
  ELSE LET removed == oldFilesLoop(oldFileMap, newFileMap, i - 1)
           path == oldFileMap[i].key
           oldFile == oldFileMap[i].value
       IN  IF ~MapHas(newFileMap, path)
           THEN Append(removed, [path |-> path, content |-> oldFile.content])
           ELSE removed

\* compareFiles with a hasChanges that leaves the removed files out.
compareFiles_removedUnseen(oldFiles, newFiles) ==
  LET oldFileMap == fileMap(oldFiles)
      newFileMap == fileMap(newFiles)
      first == newFilesLoop(oldFileMap, newFileMap, Len(newFileMap))
      comparison ==
        [added |-> first.added, modified |-> first.modified,
         removed |-> oldFilesLoop(oldFileMap, newFileMap, Len(oldFileMap)),
         unchanged |-> first.unchanged]
  IN  [hasChanges |-> \/ Len(comparison.added) > 0
                      \/ Len(comparison.modified) > 0,
       summary |-> [addedCount |-> Len(comparison.added),
                    modifiedCount |-> Len(comparison.modified),
                    removedCount |-> Len(comparison.removed),
                    unchangedCount |-> Len(comparison.unchanged)],
       details |-> comparison]

compareFiles(oldFiles, newFiles) ==
  LET oldFileMap == fileMap(oldFiles)
      newFileMap == fileMap(newFiles)
      first == newFilesLoop(oldFileMap, newFileMap, Len(newFileMap))
      comparison ==
        [added |-> first.added, modified |-> first.modified,
         removed |-> oldFilesLoop(oldFileMap, newFileMap, Len(oldFileMap)),
         unchanged |-> first.unchanged]
  IN  [hasChanges |-> \/ Len(comparison.added) > 0
                      \/ Len(comparison.modified) > 0
                      \/ Len(comparison.removed) > 0,
       summary |-> [addedCount |-> Len(comparison.added),
                    modifiedCount |-> Len(comparison.modified),
                    removedCount |-> Len(comparison.removed),
                    unchangedCount |-> Len(comparison.unchanged)],
       details |-> comparison]

\* generateUpdateMessage: the parts that join puts together, each
\* with its count, or the one fixed sentence when there is no part.
generateUpdateMessage(comparison) ==
  LET added == comparison.details.added
      modified == comparison.details.modified
      removed == comparison.details.removed
      messages ==
        (IF Len(added) > 0
         THEN <<[text |-> "Added file(s)", count |-> Len(added)]>>
         ELSE <<>>) \o
        (IF Len(modified) > 0
         THEN <<[text |-> "Modified file(s)", count |-> Len(modified)]>>
         ELSE <<>>) \o
        (IF Len(removed) > 0
         THEN <<[text |-> "Removed file(s)", count |-> Len(removed)]>>
         ELSE <<>>)
  IN  IF messages # <<>> THEN messages
      ELSE <<[text |-> "Code matches previous version (no changes)"]>>

getUpdateInstructions(oldFiles, newFiles) ==
  LET comparison == compareFiles(oldFiles, newFiles)
  IN  [applyChanges |-> comparison.hasChanges,
       instructions |-> [files |-> comparison.details,
                         summary |-> comparison.summary,
                         message |-> generateUpdateMessage(comparison)]]

\* An array in a request body, where the field may also be left out
\* (Undefined).
Arr(files) == [array |-> files]
\* files || []
OrEmpty(files) == IF Truthy(files) THEN files.array ELSE <<>>

\* POST /cache/compare that compares the file sets it substitutes for the
\* missing ones.
cacheCompare_comparesDefaults(oldCode, newCode, oldFiles, newFiles) ==
  IF oldCode = <<>> \/ newCode = <<>>
  THEN [status |-> 400, error |-> "Missing oldCode or newCode"]
  ELSE [status |-> 200,
        codeDiff |-> generateDiff(oldCode, newCode),
        fileComparison |-> compareFiles(OrEmpty(oldFiles), OrEmpty(newFiles)),
        updateInstructions |->
          getUpdateInstructions(OrEmpty(oldFiles), OrEmpty(newFiles))]
\* POST /cache/compare with body {oldCode, newCode, oldFiles, newFiles}: the
\* response.
cacheCompare(oldCode, newCode, oldFiles, newFiles) ==
  IF oldCode = <<>> \/ newCode = <<>>
  THEN [status |-> 400, error |-> "Missing oldCode or newCode"]
  ELSE [status |-> 200,
        codeDiff |-> generateDiff(oldCode, newCode),
        fileComparison |->
          IF Truthy(oldFiles) /\ Truthy(newFiles)
          THEN compareFiles(oldFiles.array, newFiles.array)
          ELSE Null,
        updateInstructions |->
          getUpdateInstructions(OrEmpty(oldFiles), OrEmpty(newFiles))]

\* ------------------------------------------------------------ Session log
\* addToHistory with currentIndex = entries.length (one too far).
addToHistory_indexLen(hist, sessionId, code, files, prompt, t) ==
  LET h0 == IF sessionId \in DOMAIN hist THEN hist
            ELSE hist @@ (sessionId :> [entries |-> <<>>, currentIndex |-> -1])
      history == h0[sessionId]
      kept == slice(history.entries, 0, history.currentIndex + 1)
      entries == Append(kept, [timestamp |-> t, code |-> code,
                               files |-> files, prompt |-> prompt])
  IN  [h0 EXCEPT ![sessionId] =
         [entries |-> entries, currentIndex |-> Len(entries)]]

\* addToHistory without the slice that drops the redo entries.
addToHistory_keepsRedo(hist, sessionId, code, files, prompt, t) ==
  LET h0 == IF sessionId \in DOMAIN hist THEN hist
            ELSE hist @@ (sessionId :> [entries |-> <<>>, currentIndex |-> -1])
      history == h0[sessionId]
      entries == Append(history.entries, [timestamp |-> t, code |-> code,
                                          files |-> files, prompt |-> prompt])
  IN  [h0 EXCEPT ![sessionId] =
         [entries |-> entries, currentIndex |-> Len(entries) - 1]]

\* addToHistory with slice(0, currentIndex): the current entry is dropped too.
addToHistory_sliceShort(hist, sessionId, code, files, prompt, t) ==
  LET h0 == IF sessionId \in DOMAIN hist THEN hist
            ELSE hist @@ (sessionId :> [entries |-> <<>>, currentIndex |-> -1])
      history == h0[sessionId]
      kept == slice(history.entries, 0,
                    IF history.currentIndex < 0 THEN 0
                    ELSE history.currentIndex)
      entries == Append(kept, [timestamp |-> t, code |-> code,
                               files |-> files, prompt |-> prompt])
  IN  [h0 EXCEPT ![sessionId] =
         [entries |-> entries, currentIndex |-> Len(entries) - 1]]

\* The session map after addToHistory(sessionId, code, files, prompt) at time t.
addToHistory(hist, sessionId, code, files, prompt, t) ==
  LET h0 == IF sessionId \in DOMAIN hist THEN hist
            ELSE hist @@ (sessionId :> [entries |-> <<>>, currentIndex |-> -1])
      history == h0[sessionId]
      kept == slice(history.entries, 0, history.currentIndex + 1)
      entries == Append(kept, [timestamp |-> t, code |-> code,
                               files |-> files, prompt |-> prompt])
  IN  [h0 EXCEPT ![sessionId] =
         [entries |-> entries, currentIndex |-> Len(entries) - 1]]

\* undo that creates the log of a session it does not find.
undo_creates(hist, sessionId) ==
  IF sessionId \notin DOMAIN hist
  THEN [hist |-> hist @@ (sessionId :> [entries |-> <<>>, currentIndex |-> -1]),
        ret |-> Null]
  ELSE IF hist[sessionId].currentIndex <= 0
  THEN [hist |-> hist, ret |-> Null]
  ELSE LET i == hist[sessionId].currentIndex - 1
       IN  [hist |-> [hist EXCEPT ![sessionId].currentIndex = i],
            ret |-> hist[sessionId].entries[i + 1]]

\* undo that drops the entries past the entry it moves to.
undo_truncates(hist, sessionId) ==
  IF sessionId \notin DOMAIN hist \/ hist[sessionId].currentIndex <= 0
  THEN [hist |-> hist, ret |-> Null]
  ELSE LET i == hist[sessionId].currentIndex - 1
       IN  [hist |-> [hist EXCEPT ![sessionId] =
                        [entries |-> SubSeq(@.entries, 1, i + 1),
                         currentIndex |-> i]],
            ret |-> hist[sessionId].entries[i + 1]]

\* undo(sessionId): the session map afterwards and the value returned.
undo(hist, sessionId) ==
  IF sessionId \notin DOMAIN hist \/ hist[sessionId].currentIndex <= 0
  THEN [hist |-> hist, ret |-> Null]
  ELSE LET i == hist[sessionId].currentIndex - 1
       IN  [hist |-> [hist EXCEPT ![sessionId].currentIndex = i],
            ret |-> hist[sessionId].entries[i + 1]]

\* redo returning entries[currentIndex++]: the entry it moves away from.
redo_postIncrement(hist, sessionId) ==
  IF sessionId \notin DOMAIN hist
     \/ hist[sessionId].currentIndex >= Len(hist[sessionId].entries) - 1
  THEN [hist |-> hist, ret |-> Null]
  ELSE LET i == hist[sessionId].currentIndex + 1
       IN  [hist |-> [hist EXCEPT ![sessionId].currentIndex = i],
            ret |-> hist[sessionId].entries[i]]

\* redo guarded by currentIndex > length - 1: it steps past the last entry,
\* where the array read gives undefined.
redo_pastEnd(hist, sessionId) ==
  IF sessionId \notin DOMAIN hist
     \/ hist[sessionId].currentIndex > Len(hist[sessionId].entries) - 1
  THEN [hist |-> hist, ret |-> Null]
  ELSE LET i == hist[sessionId].currentIndex + 1
       IN  [hist |-> [hist EXCEPT ![sessionId].currentIndex = i],
            ret |-> IF i + 1 <= Len(hist[sessionId].entries)
                    THEN hist[sessionId].entries[i + 1] ELSE Undefined]

\* redo(sessionId): the session map afterwards and the value returned.
redo(hist, sessionId) ==
  IF sessionId \notin DOMAIN hist
     \/ hist[sessionId].currentIndex >= Len(hist[sessionId].entries) - 1
  THEN [hist |-> hist, ret |-> Null]
  ELSE LET i == hist[sessionId].currentIndex + 1
       IN  [hist |-> [hist EXCEPT ![sessionId].currentIndex = i],
            ret |-> hist[sessionId].entries[i + 1]]

\* ---------------------------------------------------------------- actions
\* new Map()
EmptyMap == [k \in {} |-> Null]

\* The /generate-stream requests the server can have in flight, and a
\* request slot with no request in it.
RequestIds == {"r1", "r2"}
Idle == [pc |-> "idle"]

\* new AbortController() of the call g of handleGenerate.
AbortController(g) == [controller |-> g]

\* The input component after its first render: the loading flag, the
\* editor's code, abortControllerRef.current, the controllers aborted so far
\* and the calls of handleGenerate, none made yet. The error message, the
\* cache notice and the file list, which nothing reads back, are left out.
Mounted ==
  [loading |-> FALSE, code |-> <<>>, abortControllerRef |-> Null,
   aborted |-> {}, calls |-> [g \in RequestIds |-> Idle]]

Init ==
  /\ cache = <<>>
  /\ sessionHistory = EmptyMap
  /\ now = 0
  /\ last = [op |-> "constructor"]
  /\ requests = [r \in RequestIds |-> Idle]
  /\ inputComponent = Mounted

\* Date.now() advances between calls.
Tick ==
  /\ now < MaxTime
  /\ now' = now + 1
  /\ last' = [op |-> "tick"]
  /\ UNCHANGED <<inputComponent, requests, cache, sessionHistory>>

CallAddToHistory(sessionId, p) ==
  /\ sessionHistory' =
       addToHistory(sessionHistory, sessionId, p.code, p.files, p.prompt, now)
  /\ last' = [op |-> "addToHistory", sessionId |-> sessionId, payload |-> p,
              before |-> IF sessionId \in DOMAIN sessionHistory
                         THEN sessionHistory[sessionId] ELSE Undefined]
  /\ UNCHANGED <<inputComponent, requests, cache, now>>

CallUndo(sessionId) ==
  /\ sessionHistory' = undo(sessionHistory, sessionId).hist
  /\ last' = [op |-> "undo", sessionId |-> sessionId,
              ret |-> undo(sessionHistory, sessionId).ret]
  /\ UNCHANGED <<inputComponent, requests, cache, now>>

CallRedo(sessionId) ==
  /\ sessionHistory' = redo(sessionHistory, sessionId).hist
  /\ last' = [op |-> "redo", sessionId |-> sessionId,
              ret |-> redo(sessionHistory, sessionId).ret]
  /\ UNCHANGED <<inputComponent, requests, cache, now>>

CallSetCacheEntry(cacheKey, p) ==
  /\ cache' =
       setCacheEntry(cache, cacheKey, p.code, p.files, p.prompt, now).cache
  /\ last' = [op |-> "setCacheEntry", cacheKey |-> cacheKey, payload |-> p,
              before |-> MapGet(cache, cacheKey),
              ret |-> setCacheEntry(cache, cacheKey, p.code, p.files,
                                    p.prompt, now).ret]
  /\ UNCHANGED <<inputComponent, requests, sessionHistory, now>>

\* getCacheEntry that stores an empty entry under a key it does not find.
CallGetCacheEntry_inserts(cacheKey) ==
  /\ last' = [op |-> "getCacheEntry", cacheKey |-> cacheKey,
              ret |-> getCacheEntry(cache, cacheKey)]
  /\ cache' = IF MapHas(cache, cacheKey) THEN cache
              ELSE MapSet(cache, cacheKey, [timestamp |-> now, code |-> <<>>,
                     files |-> <<>>, prompt |-> "", hash |-> "0"])
  /\ UNCHANGED <<inputComponent, requests, sessionHistory, now>>

CallGetCacheEntry(cacheKey) ==
  /\ last' = [op |-> "getCacheEntry", cacheKey |-> cacheKey,
              ret |-> getCacheEntry(cache, cacheKey)]
  /\ UNCHANGED <<inputComponent, requests, cache, sessionHistory, now>>

CallIsCached(cacheKey) ==
  /\ last' = [op |-> "isCached", cacheKey |-> cacheKey,
              ret |-> isCached(cache, cacheKey)]
  /\ UNCHANGED <<inputComponent, requests, cache, sessionHistory, now>>

CallGetCacheStats ==
  /\ last' = [op |-> "getCacheStats",
              ret |-> getCacheStats(cache, sessionHistory)]
  /\ UNCHANGED <<inputComponent, requests, cache, sessionHistory, now>>

\* clearCache that, called with no age, empties the session map as well.
CallClearCache_clearsSessions(olderThanMs) ==
  /\ cache' = clearCache(cache, olderThanMs, now)
  /\ sessionHistory' = IF Truthy(olderThanMs) THEN sessionHistory
                       ELSE EmptyMap
  /\ last' = [op |-> "clearCache", olderThanMs |-> olderThanMs,
              before |-> cache]
  /\ UNCHANGED <<inputComponent, requests, now>>

CallClearCache(olderThanMs) ==
  /\ cache' = clearCache(cache, olderThanMs, now)
  /\ last' = [op |-> "clearCache", olderThanMs |-> olderThanMs,
              before |-> cache]
  /\ UNCHANGED <<inputComponent, requests, sessionHistory, now>>

RECURSIVE SumLen(_, _)
\* The number of entries the sessions of set S hold in hist.
SumLen(hist, S) ==
  IF S = {} THEN 0
  ELSE LET s == CHOOSE x \in S : TRUE
       IN  Len(hist[s].entries) + SumLen(hist, S \ {s})

\* The entries stored in cache c and the session logs hist.
Stored(c, hist) == Len(c) + SumLen(hist, DOMAIN hist)

\* The append keeps the stored entries within bound n.
CanAdd(sessionId, p, n) ==
  Stored(cache, addToHistory(sessionHistory, sessionId,
                             p.code, p.files, p.prompt, now)) <= n

\* The insertion keeps the stored entries within bound n.
CanSet(cacheKey, p, n) ==
  Stored(setCacheEntry(cache, cacheKey, p.code, p.files, p.prompt, now).cache,
         sessionHistory) <= n

\* The ages clearCache is called with: none, 0 and up to the clock's range.
Ages == {Null} \cup {Num(n) : n \in 0..MaxTime}

NextHistory(n) ==
  \/ \E s \in Sessions, p \in Payloads :
        CanAdd(s, p, n) /\ CallAddToHistory(s, p)
  \/ \E s \in Sessions \cup {Absent} : CallUndo(s)
  \/ \E s \in Sessions \cup {Absent} : CallRedo(s)

NextCache(n) ==
  \/ \E k \in Keys, p \in Payloads :
        CanSet(k, p, n) /\ CallSetCacheEntry(k, p)
  \/ \E k \in Keys : CallGetCacheEntry(k)
  \/ \E k \in Keys : CallIsCached(k)
  \/ CallGetCacheStats
  \/ \E a \in Ages : CallClearCache(a)

\* The session history alone.
SpecHistory == Init /\ [][Tick \/ NextHistory(MaxEntries)]_vars

\* The response cache alone.
SpecCache == Init /\ [][Tick \/ NextCache(MaxEntries)]_vars

\* ----------------------------------------------------- Cache endpoints
\* POST /cache/check with body {prompt, imageAnalysis}: the response.
\* An imageAnalysis left out of the body is the empty string here, which is
\* what `imageAnalysis || ""` makes of it. The handler has no try block: an
\* exception of generateCacheKey reaches the default error handler of
\* express, which answers 500.
cacheCheck(c, prompt, imageAnalysis) ==
  IF prompt = <<>>
  THEN [status |-> 400, error |-> "Missing prompt", cacheKey |-> Undefined]
  ELSE LET cacheKey == generateCacheKey(prompt, imageAnalysis)
       IN  IF cacheKey = Thrown THEN [status |-> 500, cacheKey |-> Thrown]
           ELSE IF isCached(c, cacheKey.key)
           THEN LET cachedEntry == getCacheEntry(c, cacheKey.key)
                IN  [status |-> 200, cached |-> TRUE, cacheKey |-> cacheKey,
                     files |-> cachedEntry.files, code |-> cachedEntry.code,
                     timestamp |-> cachedEntry.timestamp]
           ELSE [status |-> 200, cached |-> FALSE, cacheKey |-> cacheKey]

\* POST /cache/store with body {prompt, code, files, imageAnalysis} at time
\* t: the cache afterwards and the response.
cacheStore(c, prompt, code, files, imageAnalysis, t) ==
  IF prompt = <<>> \/ code = <<>>
  THEN [cache |-> c,
        ret |-> [status |-> 400, error |-> "Missing prompt or code",
                 cacheKey |-> Undefined]]
  ELSE LET cacheKey == generateCacheKey(prompt, imageAnalysis)
       IN  IF cacheKey = Thrown
           THEN [cache |-> c, ret |-> [status |-> 500, cacheKey |-> Thrown]]
           ELSE LET set == setCacheEntry(c, cacheKey.key, code, files,
                                         prompt, t)
                IN  [cache |-> set.cache,
                     ret |-> [status |-> 200, success |-> TRUE,
                              cacheKey |-> cacheKey, entry |-> set.ret]]

PostCacheCheck(prompt, imageAnalysis) ==
  /\ last' = [op |-> "/cache/check", prompt |-> prompt,
              imageAnalysis |-> imageAnalysis,
              ret |-> cacheCheck(cache, prompt, imageAnalysis)]
  /\ UNCHANGED <<inputComponent, requests, cache, sessionHistory, now>>

PostCacheStore(prompt, code, files, imageAnalysis) ==
  /\ cache' = cacheStore(cache, prompt, code, files, imageAnalysis, now).cache
  /\ last' = [op |-> "/cache/store", prompt |-> prompt,
              imageAnalysis |-> imageAnalysis, code |-> code, files |-> files,
              ret |-> cacheStore(cache, prompt, code, files, imageAnalysis,
                                 now).ret]
  /\ UNCHANGED <<inputComponent, requests, sessionHistory, now>>

\* POST /cache/clear with body {olderThanMs}.
PostCacheClear(olderThanMs) ==
  /\ cache' = clearCache(cache, IF Truthy(olderThanMs) THEN olderThanMs
                                ELSE Null, now)
  /\ last' = [op |-> "/cache/clear", olderThanMs |-> olderThanMs,
              ret |-> [success |-> TRUE,
                       stats |-> getCacheStats(
                         clearCache(cache, IF Truthy(olderThanMs)
                                           THEN olderThanMs ELSE Null, now),
                         sessionHistory)]]
  /\ UNCHANGED <<inputComponent, requests, sessionHistory, now>>

\* Request bodies: the prompts "", "a", "a|b" and one with a code unit above
\* 0xFF (U+2192); the auxiliary contexts "", "c" and "b|c".
ApiPrompts == {<<>>, <<97>>, <<97, Bar, 98>>, <<8594>>}
ApiAux == {<<>>, <<99>>, <<98, Bar, 99>>}
\* The (code, files) pairs stored, one with an empty code body.
ApiBodies ==
  { [code |-> CodeA, files |-> FilesA],
    [code |-> CodeB, files |-> FilesB],
    [code |-> <<>>, files |-> <<>>] }

NextApi(n) ==
  \/ \E p \in ApiPrompts, a \in ApiAux : PostCacheCheck(p, a)
  \/ \E p \in ApiPrompts, a \in ApiAux, b \in ApiBodies :
        /\ Len(cacheStore(cache, p, b.code, b.files, a, now).cache) <= n
        /\ PostCacheStore(p, b.code, b.files, a)
  \/ \E a \in Ages : PostCacheClear(a)

\* The cache endpoints of the server.
SpecApi == Init /\ [][Tick \/ NextApi(MaxApiStored)]_vars

\* ------------------------------------------------------ Generation flow
Whitespace == {9, 10, 13, 32}

RECURSIVE trimStart(_)
trimStart(text) ==
  IF text # <<>> /\ Head(text) \in Whitespace THEN trimStart(Tail(text))
  ELSE text

RECURSIVE trimEnd(_)
trimEnd(text) ==
  IF text # <<>> /\ text[Len(text)] \in Whitespace
  THEN trimEnd(SubSeq(text, 1, Len(text) - 1))
  ELSE text

trim(text) == trimEnd(trimStart(text))

\* parseCodeIntoFiles for a text with no "<" in it: none of the html, style
\* and script patterns matches, and the whole text becomes index.html.
parseCodeIntoFiles(generatedCode) ==
  <<[path |-> "index.html", content |-> trim(generatedCode),
     language |-> "html"]>>

\* What imageAnalysis is when the request carries no image:
\* "No images provided for analysis."
NoImages ==
  <<78, 111, 32, 105, 109, 97, 103, 101, 115, 32, 112, 114, 111, 118, 105,
    100, 101, 100, 32, 102, 111, 114, 32, 97, 110, 97, 108, 121, 115, 105,
    115, 46>>

\* The handler of /generate-stream from the key on: the request afterwards.
\* An exception of generateCacheKey is caught after the headers went out, so
\* nothing more is written. A hit writes the stored code and files and ends
\* the response; a miss calls generateCodeWithClaude and awaits it.
lookup_alwaysGenerates(c, prompt, imageAnalysis) ==
  LET cacheKey == generateCacheKey(prompt, imageAnalysis)
  IN  IF cacheKey = Thrown
      THEN [pc |-> "error", prompt |-> prompt, cacheKey |-> Thrown]
      ELSE [pc |-> "generating", prompt |-> prompt, cacheKey |-> cacheKey]
lookup(c, prompt, imageAnalysis) ==
  LET cacheKey == generateCacheKey(prompt, imageAnalysis)
  IN  IF cacheKey = Thrown
      THEN [pc |-> "error", prompt |-> prompt, cacheKey |-> Thrown]
      ELSE LET cachedEntry == getCacheEntry(c, cacheKey.key)
           IN  IF cachedEntry # Null
               THEN [pc |-> "done", prompt |-> prompt, cacheKey |-> cacheKey,
                     hit |-> TRUE, code |-> cachedEntry.code,
                     files |-> cachedEntry.files]
               ELSE [pc |-> "generating", prompt |-> prompt,
                     cacheKey |-> cacheKey]

\* POST /generate-stream arrives in slot r with a prompt and some images.
PostGenerateStream(r, prompt, images) ==
  /\ requests[r].pc \in {"idle", "rejected", "error", "done"}
  /\ requests' = [requests EXCEPT ![r] =
       IF prompt = <<>> THEN [pc |-> "rejected", status |-> 400]
       ELSE IF images > 0 THEN [pc |-> "analysing", prompt |-> prompt]
       ELSE lookup(cache, prompt, NoImages)]
  /\ last' = [op |-> "/generate-stream", r |-> r]
  /\ UNCHANGED <<inputComponent, cache, sessionHistory, now>>

\* analyzeImagesWithClaude returns its text; it never throws.
AnalysisDone(r, imageAnalysis) ==
  /\ requests[r].pc = "analysing"
  /\ requests' = [requests EXCEPT ![r] =
       lookup(cache, requests[r].prompt, imageAnalysis)]
  /\ last' = [op |-> "analyzeImagesWithClaude", r |-> r]
  /\ UNCHANGED <<inputComponent, cache, sessionHistory, now>>

\* const isProjectUpgrade = projectContext !== null
isProjectUpgrade(request) == "projectContext" \in DOMAIN request

\* generateCodeWithClaude gets the final message of the stream: the response
\* is parsed into files and, when there is a key and the request is no
\* project upgrade, stored under the key of the request.
GeneratorDone(r, fullResponse) ==
  /\ requests[r].pc = "generating"
  /\ cache' = IF requests[r].cacheKey # Null /\ ~isProjectUpgrade(requests[r])
              THEN setCacheEntry(cache, requests[r].cacheKey.key, fullResponse,
                                 parseCodeIntoFiles(fullResponse),
                                 requests[r].prompt, now).cache
              ELSE cache
  /\ requests' = [requests EXCEPT ![r] =
       [pc |-> "done", prompt |-> requests[r].prompt,
        cacheKey |-> requests[r].cacheKey, hit |-> FALSE,
        code |-> fullResponse, files |-> parseCodeIntoFiles(fullResponse)]]
  /\ last' = [op |-> "generateCodeWithClaude", r |-> r]
  /\ UNCHANGED <<inputComponent, sessionHistory, now>>

\* The stream of generateCodeWithClaude throws before the final message, with
\* partial text received so far: the catch block writes nothing, the headers
\* being out, and nothing is stored.
GeneratorFail_storesPartial(r, partial) ==
  /\ requests[r].pc = "generating"
  /\ cache' = setCacheEntry(cache, requests[r].cacheKey.key, partial,
                            parseCodeIntoFiles(partial),
                            requests[r].prompt, now).cache
  /\ requests' = [requests EXCEPT ![r] =
       [pc |-> "error", prompt |-> requests[r].prompt,
        cacheKey |-> requests[r].cacheKey]]
  /\ last' = [op |-> "generateCodeWithClaude throws", r |-> r]
  /\ UNCHANGED <<inputComponent, sessionHistory, now>>
GeneratorFail(r, partial) ==
  /\ requests[r].pc = "generating"
  /\ requests' = [requests EXCEPT ![r] =
       [pc |-> "error", prompt |-> requests[r].prompt,
        cacheKey |-> requests[r].cacheKey]]
  /\ last' = [op |-> "generateCodeWithClaude throws", r |-> r]
  /\ UNCHANGED <<inputComponent, cache, sessionHistory, now>>

\* POST /generate-from-project handled as /generate-stream is: the key is
\* looked up and the request answered from the cache or generated under it.
PostGenerateFromProject_looksUp(r, prompt, images, projectFiles) ==
  /\ requests[r].pc \in {"idle", "rejected", "error", "done"}
  /\ requests' = [requests EXCEPT ![r] =
       IF prompt = <<>> THEN [pc |-> "rejected", status |-> 400]
       ELSE lookup(cache, prompt, NoImages)]
  /\ last' = [op |-> "/generate-from-project", r |-> r]
  /\ UNCHANGED <<inputComponent, cache, sessionHistory, now>>

\* POST /generate-from-project arrives in slot r with a prompt, some images
\* and an archive that holds projectFiles web files. With no such file the
\* handler throws after the headers went out and writes nothing more. No key
\* is made: generateCodeWithClaude gets null for it, and the project.
PostGenerateFromProject(r, prompt, images, projectFiles) ==
  /\ requests[r].pc \in {"idle", "rejected", "error", "done"}
  /\ requests' = [requests EXCEPT ![r] =
       IF prompt = <<>> THEN [pc |-> "rejected", status |-> 400]
       ELSE IF projectFiles = 0
       THEN [pc |-> "error", prompt |-> prompt, cacheKey |-> Null]
       ELSE [pc |-> IF images > 0 THEN "analysing project" ELSE "generating",
             prompt |-> prompt, cacheKey |-> Null, projectContext |-> TRUE]]
  /\ last' = [op |-> "/generate-from-project", r |-> r]
  /\ UNCHANGED <<inputComponent, cache, sessionHistory, now>>

\* analyzeImagesWithClaude returns its text to /generate-from-project.
ProjectAnalysisDone(r, imageAnalysis) ==
  /\ requests[r].pc = "analysing project"
  /\ requests' = [requests EXCEPT ![r].pc = "generating"]
  /\ last' = [op |-> "analyzeImagesWithClaude", r |-> r]
  /\ UNCHANGED <<inputComponent, cache, sessionHistory, now>>

\* Prompts of the requests: "", "a" and one with a code unit above 0xFF.
GenPrompts == {<<>>, <<97>>, <<8594>>}
\* What the image analysis returns.
GenAnalyses == {<<99>>}
\* What the generator streams: "a" and " ab".
GenOutputs == {CodeA, <<32, 97, 98>>}

NextGenerate(n) ==
  \/ \E r \in RequestIds, p \in GenPrompts, images \in 0..1 :
        PostGenerateStream(r, p, images)
  \/ \E r \in RequestIds, a \in GenAnalyses : AnalysisDone(r, a)
  \/ \E r \in RequestIds, code \in GenOutputs :
        /\ requests[r].pc = "generating"
        /\ Len(setCacheEntry(cache, requests[r].cacheKey.key, code, <<>>,
                             requests[r].prompt, now).cache) <= n
        /\ GeneratorDone(r, code)
  \/ \E r \in RequestIds, partial \in GenOutputs : GeneratorFail(r, partial)
  \/ \E a \in Ages : PostCacheClear(a)

\* The generation endpoint with the cache it reads and fills.
SpecGenerate == Init /\ [][Tick \/ NextGenerate(MaxStored)]_vars

\* The texts generateDiff is called with: "a", "b" and line breaks.
Texts == UNION {[1..n -> {97, 98, Newline}] : n \in 0..MaxTextLen}

\* A call of generateDiff about to be made with two texts.
InitDiff ==
  /\ cache = <<>>
  /\ sessionHistory = EmptyMap
  /\ now = 0
  /\ last \in {[op |-> "call generateDiff", oldCode |-> old, newCode |-> new] :
                 old \in Texts, new \in Texts}
  /\ requests = [r \in RequestIds |-> Idle]
  /\ inputComponent = Mounted

CallGenerateDiff ==
  /\ last.op = "call generateDiff"
  /\ last' = [op |-> "generateDiff",
              oldCode |-> last.oldCode, newCode |-> last.newCode,
              ret |-> generateDiff(last.oldCode, last.newCode)]
  /\ UNCHANGED <<inputComponent, requests, cache, sessionHistory, now>>

\* ----------------------------------------------------- Input component
\* `${img.name}-${img.file.size}` of the one image a call can carry: "i-1".
ImageHash == <<105, 45, 49>>
\* fullHash of a call with no archive: the image hash, or "".
fullHash(images) == IF images > 0 THEN ImageHash ELSE <<>>

\* handleGenerate from the FormData on: fetch is given the signal of
\* abortControllerRef.current as it is now. When that is null the read of
\* .signal throws a TypeError, and the catch block clears the loading flag
\* and the controller.
sendRequest(c, g) ==
  IF c.abortControllerRef = Null
  THEN [c EXCEPT !.loading = FALSE, !.calls[g].pc = "failed"]
  ELSE [c EXCEPT !.calls[g].pc = "fetching",
                 !.calls[g].signal = c.abortControllerRef.controller]

\* The Generate button is pressed while nothing is loading: call g of
\* handleGenerate runs up to its first await, that of checkCache, or with
\* an archive that of fetch.
HandleGenerate(g, prompt, images, zipFiles) ==
  /\ ~inputComponent.loading
  /\ inputComponent.calls[g].pc = "idle"
  /\ inputComponent' =
       IF trim(prompt) = <<>> THEN inputComponent
       ELSE LET call == [pc |-> "checking", prompt |-> prompt,
                         images |-> images, zipFiles |-> zipFiles,
                         signal |-> "none", generatedCode |-> <<>>,
                         fileStructure |-> <<>>]
                started == [inputComponent EXCEPT
                              !.loading = TRUE, !.code = <<>>,
                              !.abortControllerRef = AbortController(g),
                              !.calls[g] = call]
            IN  IF zipFiles = 0 THEN started ELSE sendRequest(started, g)
  /\ last' = [op |-> "handleGenerate", g |-> g]
  /\ UNCHANGED <<requests, cache, sessionHistory, now>>

\* The button is pressed while loading: handleStopGeneration aborts the
\* controller in abortControllerRef, if there is one. Every fetch and every
\* read that was given its signal rejects with an AbortError, and the catch
\* block of its call, which clears the flag and the controller again, runs
\* before the next event.
HandleStopGeneration ==
  /\ inputComponent.loading
  /\ inputComponent' =
       IF inputComponent.abortControllerRef = Null THEN inputComponent
       ELSE LET c == inputComponent.abortControllerRef.controller
            IN  [inputComponent EXCEPT
                   !.loading = FALSE, !.abortControllerRef = Null,
                   !.aborted = @ \cup {c},
                   !.calls = [g \in RequestIds |->
                     IF @[g].pc = "fetching" /\ @[g].signal = c
                     THEN [@[g] EXCEPT !.pc = "aborted"] ELSE @[g]]]
  /\ last' = [op |-> "handleStopGeneration"]
  /\ UNCHANGED <<requests, cache, sessionHistory, now>>

\* checkCache returns to call g what /cache/check answers: on a hit the
\* code goes to the editor and the call ends, otherwise the request is sent.
\* An answer that is not ok counts as a miss.
CheckCacheReturns(g) ==
  /\ inputComponent.calls[g].pc = "checking"
  /\ LET call == inputComponent.calls[g]
         cacheResult == cacheCheck(cache, call.prompt, fullHash(call.images))
     IN  inputComponent' =
           IF cacheResult.status = 200 /\ cacheResult.cached
           THEN [inputComponent EXCEPT
                   !.code = cacheResult.code, !.loading = FALSE,
                   !.abortControllerRef = Null, !.calls[g].pc = "done"]
           ELSE sendRequest(inputComponent, g)
  /\ last' = [op |-> "checkCache", g |-> g]
  /\ UNCHANGED <<requests, cache, sessionHistory, now>>

\* Call g reads the stream of its request to the end, each write of the
\* server being one chunk: the code is appended to the editor, and then
\* storeInCache is called, or with an archive the call ends.
ReadStream(g) ==
  /\ inputComponent.calls[g].pc = "fetching"
  /\ requests[g].pc = "done"
  /\ LET streamed == [inputComponent EXCEPT
                        !.code = @ \o trim(requests[g].code),
                        !.calls[g].generatedCode = trim(requests[g].code),
                        !.calls[g].fileStructure = requests[g].files]
     IN  inputComponent' =
           IF inputComponent.calls[g].zipFiles = 0
           THEN [streamed EXCEPT !.calls[g].pc = "storing"]
           ELSE [streamed EXCEPT !.loading = FALSE,
                                 !.abortControllerRef = Null,
                                 !.calls[g].pc = "done"]
  /\ last' = [op |-> "reader.read", g |-> g]
  /\ UNCHANGED <<requests, cache, sessionHistory, now>>

\* /cache/store handles the request of call g and storeInCache returns: the
\* call ends.
StoreInCacheReturns(g) ==
  /\ inputComponent.calls[g].pc = "storing"
  /\ LET call == inputComponent.calls[g]
     IN  cache' = cacheStore(cache, call.prompt, call.generatedCode,
                             call.fileStructure, fullHash(call.images),
                             now).cache
  /\ inputComponent' = [inputComponent EXCEPT
                          !.loading = FALSE, !.abortControllerRef = Null,
                          !.calls[g].pc = "done"]
  /\ last' = [op |-> "storeInCache", g |-> g]
  /\ UNCHANGED <<requests, sessionHistory, now>>

\* The prompts typed: "" and "a".
InputPrompts == {<<>>, <<97>>}

NextInput ==
  \/ \E g \in RequestIds, p \in InputPrompts, images \in 0..1,
        zipFiles \in 0..1 : HandleGenerate(g, p, images, zipFiles)
  \/ HandleStopGeneration
  \/ \E g \in RequestIds : CheckCacheReturns(g)
  \/ \E r \in RequestIds :
        /\ inputComponent.calls[r].pc = "fetching"
        /\ inputComponent.calls[r].zipFiles = 0
        /\ requests[r].pc = "idle"
        /\ PostGenerateStream(r, inputComponent.calls[r].prompt,
                              inputComponent.calls[r].images)
  \/ \E r \in RequestIds, projectFiles \in 0..1 :
        /\ inputComponent.calls[r].pc = "fetching"
        /\ inputComponent.calls[r].zipFiles > 0
        /\ requests[r].pc = "idle"
        /\ PostGenerateFromProject(r, inputComponent.calls[r].prompt,
                                   inputComponent.calls[r].images,
                                   projectFiles)
  \/ \E r \in RequestIds, a \in GenAnalyses : AnalysisDone(r, a)
  \/ \E r \in RequestIds, a \in GenAnalyses : ProjectAnalysisDone(r, a)
  \/ \E r \in RequestIds, code \in GenOutputs : GeneratorDone(r, code)
  \/ \E r \in RequestIds, partial \in GenOutputs : GeneratorFail(r, partial)
  \/ \E g \in RequestIds : ReadStream(g)
  \/ \E g \in RequestIds : StoreInCacheReturns(g)

\* The input component with the server it talks to: each call of
\* handleGenerate made once.
SpecInput == Init /\ [][NextInput]_vars

\* The line differencer alone: one call on each pair of texts.
SpecDiff == InitDiff /\ [][CallGenerateDiff]_vars

\* The files compareFiles is called with: two paths, each with its language,
\* and two contents.
CmpFiles ==
  {[path |-> "index.html", content |-> c, language |-> "html"] :
     c \in {CodeA, CodeB}} \cup
  {[path |-> "styles.css", content |-> c, language |-> "css"] :
     c \in {CodeA, CodeB}}
\* File sets of up to MaxFiles files, a path possibly occurring twice.
FileSets == UNION {[1..n -> CmpFiles] : n \in 0..MaxFiles}

\* The code units of the texts generateCodeHash is called with: NUL, "a" and
\* the largest one, U+FFFF.
HashUnits == {0, 97, 65535}
HashTexts == UNION {[1..n -> HashUnits] : n \in 0..MaxHashLen}

\* A call of generateCodeHash about to be made with a text.
InitHash ==
  /\ cache = <<>>
  /\ sessionHistory = EmptyMap
  /\ now = 0
  /\ requests = [r \in RequestIds |-> Idle]
  /\ inputComponent = Mounted
  /\ last \in {[op |-> "call generateCodeHash", code |-> code] :
                 code \in HashTexts}

CallGenerateCodeHash ==
  /\ last.op = "call generateCodeHash"
  /\ last' = [op |-> "generateCodeHash", code |-> last.code,
              ret |-> generateCodeHash(last.code)]
  /\ UNCHANGED <<inputComponent, requests, cache, sessionHistory, now>>

\* The content hasher alone: one call on each text.
SpecHash == InitHash /\ [][CallGenerateCodeHash]_vars

\* The codes in the body of a compare request, and its file sets, which
\* may be left out.
CmpCodes == {<<>>, CodeA, CodeB}
CmpBodies == {Undefined} \cup {Arr(files) : files \in FileSets}

\* A call of compareFiles, or a compare request, about to be made.
InitCompare ==
  /\ cache = <<>>
  /\ sessionHistory = EmptyMap
  /\ now = 0
  /\ requests = [r \in RequestIds |-> Idle]
  /\ inputComponent = Mounted
  /\ last \in
       {[op |-> "call compareFiles", oldFiles |-> old, newFiles |-> new] :
          old \in FileSets, new \in FileSets} \cup
       {[op |-> "call /cache/compare", oldCode |-> oldCode,
         newCode |-> newCode, oldFiles |-> old, newFiles |-> new] :
          oldCode \in CmpCodes, newCode \in CmpCodes,
          old \in CmpBodies, new \in CmpBodies}

CallCompareFiles ==
  /\ last.op = "call compareFiles"
  /\ last' = [op |-> "compareFiles",
              oldFiles |-> last.oldFiles, newFiles |-> last.newFiles,
              ret |-> compareFiles(last.oldFiles, last.newFiles)]
  /\ UNCHANGED <<inputComponent, requests, cache, sessionHistory, now>>

PostCacheCompare ==
  /\ last.op = "call /cache/compare"
  /\ last' = [op |-> "/cache/compare",
              oldCode |-> last.oldCode, newCode |-> last.newCode,
              oldFiles |-> last.oldFiles, newFiles |-> last.newFiles,
              ret |-> cacheCompare(last.oldCode, last.newCode,
                                   last.oldFiles, last.newFiles)]
  /\ UNCHANGED <<inputComponent, requests, cache, sessionHistory, now>>

\* The file comparator alone: one call on each pair of file sets, and one
\* compare request on each body.
SpecCompare == InitCompare /\ [][CallCompareFiles \/ PostCacheCompare]_vars

Next == Tick \/ NextHistory(MaxStored) \/ NextCache(MaxStored)

Spec == Init /\ [][Next]_vars

\* ------------------------------------------------------ claims: history
\* The entry addToHistory builds from payload p (its timestamp aside).
Holds(e, p) == e.code = p.code /\ e.files = p.files /\ e.prompt = p.prompt

\* C1: every session log that exists is non-empty and has
\* 0 <= currentIndex < length(entries).
C1_IndexInRange ==
  \A s \in DOMAIN sessionHistory :
    /\ Len(sessionHistory[s].entries) > 0
    /\ 0 <= sessionHistory[s].currentIndex
    /\ sessionHistory[s].currentIndex < Len(sessionHistory[s].entries)

\* C1 witness: two sessions exist and undo has just moved one of them from its
\* second entry back to its first.
C1_Witness ==
  /\ DOMAIN sessionHistory = Sessions
  /\ last.op = "undo" /\ last.ret # Null
  /\ Len(sessionHistory[last.sessionId].entries) = 2
  /\ sessionHistory[last.sessionId].currentIndex = 0

\* C2: right after addToHistory(s, v) the new entry is the last entry of s,
\* currentIndex points at it and redo(s) returns absent; the log is the old
\* log up to the old currentIndex plus the new entry, so the entries that were
\* ahead are gone from it, and whatever a later undo or redo returns is the
\* entry of the log at the new currentIndex, the log itself untouched.
C2_AppendDiscardsRedo ==
  [][ /\ last'.op = "addToHistory" =>
          LET s == last'.sessionId
              h == sessionHistory'[s]
              n == Len(h.entries)
          IN  /\ n > 0
              /\ Holds(h.entries[n], last'.payload)
              /\ h.entries[n].timestamp = now
              /\ h.currentIndex = n - 1
              /\ redo(sessionHistory', s).ret = Null
              /\ s \in DOMAIN sessionHistory =>
                    /\ n = sessionHistory[s].currentIndex + 2
                    /\ SubSeq(h.entries, 1, n - 1) =
                         SubSeq(sessionHistory[s].entries, 1, n - 1)
      /\ (last'.op \in {"undo", "redo"} /\ last'.ret # Null) =>
          LET s == last'.sessionId
              h == sessionHistory'[s]
          IN  /\ h.entries = sessionHistory[s].entries
              /\ last'.ret = h.entries[h.currentIndex + 1]
    ]_vars

\* C2 witness: an append that discarded a redo entry (append, append, undo,
\* append).
C2_Witness ==
  /\ last.op = "addToHistory"
  /\ last.before # Undefined
  /\ last.before.currentIndex < Len(last.before.entries) - 1
  /\ redo(sessionHistory, last.sessionId).ret = Null

\* C3: a successful undo(s) returns the entry just before the current one, and
\* redo(s) applied to the state it leaves returns the entry that was current
\* and restores entries and currentIndex; symmetrically for a successful redo
\* followed by undo.
C3_UndoRedoInverse ==
  [][ /\ (last'.op = "undo" /\ last'.ret # Null) =>
          LET s == last'.sessionId
              h == sessionHistory[s]
          IN  /\ last'.ret = h.entries[h.currentIndex]
              /\ redo(sessionHistory', s).ret = h.entries[h.currentIndex + 1]
              /\ redo(sessionHistory', s).hist = sessionHistory
      /\ (last'.op = "redo" /\ last'.ret # Null) =>
          LET s == last'.sessionId
              h == sessionHistory[s]
          IN  /\ last'.ret = h.entries[h.currentIndex + 2]
              /\ undo(sessionHistory', s).ret = h.entries[h.currentIndex + 1]
              /\ undo(sessionHistory', s).hist = sessionHistory
    ]_vars

\* C3 witness: a redo has succeeded (so an undo succeeded before it) and
\* returned an entry that differs from the one it moved away from.
C3_Witness ==
  /\ last.op = "redo" /\ last.ret # Null
  /\ LET h == sessionHistory[last.sessionId]
     IN  h.entries[h.currentIndex] # h.entries[h.currentIndex + 1]

\* C4: undo(s) on an unknown or absent session, or on a session whose
\* currentIndex is 0, returns absent, creates no log and changes no session.
C4_UndoNoop ==
  [][ (/\ last'.op = "undo"
       /\ IF last'.sessionId \in DOMAIN sessionHistory
          THEN sessionHistory[last'.sessionId].currentIndex = 0
          ELSE TRUE)
      => /\ last'.ret = Null
         /\ sessionHistory' = sessionHistory
         /\ cache' = cache
    ]_vars

\* C4 witness: undo was refused on a session holding exactly one entry while
\* another session id is still unknown.
C4_Witness ==
  /\ last.op = "undo" /\ last.ret = Null
  /\ last.sessionId \in DOMAIN sessionHistory
  /\ Len(sessionHistory[last.sessionId].entries) = 1
  /\ DOMAIN sessionHistory # Sessions

\* C5: redo(s) on an unknown or absent session, or on a session whose
\* currentIndex is the last index, returns absent, creates no log and changes
\* no session.
C5_RedoNoop ==
  [][ (/\ last'.op = "redo"
       /\ IF last'.sessionId \in DOMAIN sessionHistory
          THEN sessionHistory[last'.sessionId].currentIndex =
                 Len(sessionHistory[last'.sessionId].entries) - 1
          ELSE TRUE)
      => /\ last'.ret = Null
         /\ sessionHistory' = sessionHistory
         /\ cache' = cache
    ]_vars

\* C5 witness: redo was refused at the end of a log of two entries.
C5_Witness ==
  /\ last.op = "redo" /\ last.ret = Null
  /\ last.sessionId \in DOMAIN sessionHistory
  /\ Len(sessionHistory[last.sessionId].entries) = 2
  /\ sessionHistory[last.sessionId].currentIndex = 1

\* C6: addToHistory on a session with entries E and currentIndex i leaves
\* E[0..i] followed by exactly one new entry holding the code, files and
\* prompt, with currentIndex = i + 1; on a session with no log it creates the
\* log with that single entry and currentIndex 0.
C6_AppendResult ==
  [][ last'.op = "addToHistory" =>
        LET s == last'.sessionId
            h == sessionHistory'[s]
        IN  IF s \in DOMAIN sessionHistory
            THEN LET E == sessionHistory[s].entries
                     i == sessionHistory[s].currentIndex
                 IN  /\ Len(h.entries) = i + 2
                     /\ \A j \in 1..(i + 1) : h.entries[j] = E[j]
                     /\ Holds(h.entries[i + 2], last'.payload)
                     /\ h.currentIndex = i + 1
            ELSE /\ Len(h.entries) = 1
                 /\ Holds(h.entries[1], last'.payload)
                 /\ h.currentIndex = 0
    ]_vars

\* C6 witness: an append onto a log of two entries whose pointer was at the
\* first one: the result again has two entries, the second one new.
C6_Witness ==
  /\ last.op = "addToHistory"
  /\ last.before # Undefined
  /\ Len(last.before.entries) = 2 /\ last.before.currentIndex = 0
  /\ Len(sessionHistory[last.sessionId].entries) = 2
  /\ sessionHistory[last.sessionId].entries[2] # last.before.entries[2]

\* -------------------------------------------------------- claims: cache
\* C7: setCacheEntry(k, code, files, prompt) followed immediately by
\* getCacheEntry(k) returns an entry with exactly that code and those files.
C7_SetThenGet ==
  [][ last'.op = "setCacheEntry" =>
        LET e == getCacheEntry(cache', last'.cacheKey)
        IN  /\ e # Null
            /\ e.code = last'.payload.code
            /\ e.files = last'.payload.files
    ]_vars

\* C7 witness: an entry with a non-empty file list was stored under a key
\* while the other key holds an entry with different code.
C7_Witness ==
  /\ last.op = "setCacheEntry"
  /\ last.payload.files # <<>>
  /\ Len(cache) = 2
  /\ cache[1].value.code # cache[2].value.code

\* C8: setCacheEntry on a key that already holds an entry replaces it
\* entirely: the entry under the key is the new code, files and prompt, the
\* current time and the hash of the new code, and the cache has as many
\* entries as before.
C8_Overwrite ==
  [][ (last'.op = "setCacheEntry" /\ isCached(cache, last'.cacheKey)) =>
        /\ getCacheEntry(cache', last'.cacheKey) =
             [timestamp |-> now,
              code |-> last'.payload.code,
              files |-> last'.payload.files,
              prompt |-> last'.payload.prompt,
              hash |-> generateCodeHash(last'.payload.code)]
        /\ Len(cache') = Len(cache)
        /\ MapKeys(cache') = MapKeys(cache)
    ]_vars

\* C8 witness: an entry was overwritten by one that differs from it in code,
\* files, prompt, timestamp and hash.
C8_Witness ==
  /\ last.op = "setCacheEntry"
  /\ last.before # Undefined
  /\ last.before.code # last.ret.code
  /\ last.before.files # last.ret.files
  /\ last.before.prompt # last.ret.prompt
  /\ last.before.timestamp # last.ret.timestamp
  /\ last.before.hash # last.ret.hash

\* C9: getCacheEntry, isCached and getCacheStats change neither the cache nor
\* any session log; for an unknown key they yield absent / false and the key
\* is not inserted.
C9_ReadOnly ==
  [][ /\ last'.op \in {"getCacheEntry", "isCached", "getCacheStats"} =>
          /\ cache' = cache
          /\ sessionHistory' = sessionHistory
      /\ (last'.op = "getCacheEntry" /\ ~MapHas(cache, last'.cacheKey)) =>
          /\ last'.ret = Null
          /\ ~MapHas(cache', last'.cacheKey)
      /\ (last'.op = "isCached" /\ ~MapHas(cache, last'.cacheKey)) =>
          /\ last'.ret = FALSE
          /\ ~MapHas(cache', last'.cacheKey)
    ]_vars

\* C9 witness: getCacheEntry returned absent for an unknown key while the
\* cache holds another key and a session log exists.
C9_Witness ==
  /\ last.op = "getCacheEntry" /\ last.ret = Null
  /\ Len(cache) = 1
  /\ DOMAIN sessionHistory # {}

\* C10: isCached(k) is true exactly when getCacheEntry(k) returns an entry; it
\* becomes true only by setCacheEntry on k itself, is true right after that
\* call, and becomes false only by clearCache.
C10_CachedIffStored ==
  [][ \A k \in Keys :
        /\ isCached(cache, k) <=> (getCacheEntry(cache, k) # Null)
        /\ isCached(cache', k) <=> (getCacheEntry(cache', k) # Null)
        /\ (~isCached(cache, k) /\ isCached(cache', k)) =>
              (last'.op = "setCacheEntry" /\ last'.cacheKey = k)
        /\ (last'.op = "setCacheEntry" /\ last'.cacheKey = k) =>
              isCached(cache', k)
        /\ (isCached(cache, k) /\ ~isCached(cache', k)) =>
              last'.op = "clearCache"
    ]_vars

\* C10 witness: one key was just set and isCached is false for the other.
C10_Witness ==
  /\ last.op = "setCacheEntry"
  /\ isCached(cache, last.cacheKey)
  /\ \E k \in Keys : k # last.cacheKey /\ ~isCached(cache, k)

\* C11: clearCache(m) with an age m >= 0 removes exactly the entries with
\* now - timestamp > m and keeps every entry with now - timestamp <= m
\* unchanged.
C11_ClearByAge ==
  [][ (last'.op = "clearCache" /\ last'.olderThanMs # Null) =>
        LET m == last'.olderThanMs.num
            young(e) == now - e.value.timestamp <= m
        IN  cache' = SelectSeq(cache, young)
    ]_vars

\* C12: clearCache() with no argument leaves the cache empty: totalEntries is
\* 0 and isCached(k) is false for every key k.
C12_ClearAll ==
  [][ (last'.op = "clearCache" /\ last'.olderThanMs = Null) =>
        /\ getCacheStats(cache', sessionHistory').totalEntries = 0
        /\ \A k \in Keys : ~isCached(cache', k)
    ]_vars

\* C12 witness: clearCache() was called on a cache of two entries, one of them
\* stored at the current time.
C12_Witness ==
  /\ last.op = "clearCache" /\ last.olderThanMs = Null
  /\ Len(last.before) = 2
  /\ \E i \in 1..2 : last.before[i].value.timestamp = now
  /\ cache = <<>>

\* The call recorded in l computed a cache key and got one.
KeyedCall(l) ==
  /\ l.op \in {"/cache/check", "/cache/store"}
  /\ l.ret.status = 200

\* C13: generateCacheKey is injective: two calls that each compute a key get
\* the same key if and only if their prompts are equal and their auxiliary
\* contexts are equal.
C13_KeyInjective ==
  [][(KeyedCall(last) /\ KeyedCall(last')) =>
       ((last.ret.cacheKey = last'.ret.cacheKey) <=>
          (last.prompt = last'.prompt /\
           last.imageAnalysis = last'.imageAnalysis))]_vars

\* C14: generateCacheKey returns a key for every pair of strings: no call
\* that reaches it ends with the exception of btoa.
C14_KeyTotal ==
  last.op \in {"/cache/check", "/cache/store"} =>
    last.ret.cacheKey # Thrown

\* C16: a store with a non-empty prompt succeeds for every code string, and a
\* check with the same prompt and auxiliary context that follows reports
\* cached = true with exactly that code and those files.
C16_StoreThenCheck ==
  (last.op = "/cache/store" /\ last.prompt # <<>>) =>
    /\ last.ret.status = 200
    /\ LET chk == cacheCheck(cache, last.prompt, last.imageAnalysis)
       IN  /\ chk.status = 200
           /\ chk.cached
           /\ chk.code = last.code
           /\ chk.files = last.files

\* The step ran the cache lookup of request r and got past the key.
LookedUp(r) ==
  /\ last'.op \in {"/generate-stream", "analyzeImagesWithClaude"}
  /\ last'.r = r
  /\ requests'[r].pc \in {"done", "generating"}

\* C15: the key of a generation request is looked up before any generation.
\* On a hit the stored code and files are returned and the generator is not
\* invoked; on a miss the generator is invoked, and only then; when the
\* generator completes its result is in the cache under the key of the
\* request; and a key leaves the cache only by a clear, so that a later
\* request with the same key is a hit.
C15_LookupBeforeGenerate ==
  [][/\ \A r \in RequestIds :
         (LookedUp(r) =>
           LET k == requests'[r].cacheKey.key
           IN  IF MapHas(cache, k)
               THEN /\ requests'[r].pc = "done"
                    /\ requests'[r].hit
                    /\ requests'[r].code = getCacheEntry(cache, k).code
                    /\ requests'[r].files = getCacheEntry(cache, k).files
               ELSE requests'[r].pc = "generating")
     /\ \A r \in RequestIds :
         ((requests[r].pc # "generating" /\ requests'[r].pc = "generating")
           => (LookedUp(r) /\ ~MapHas(cache, requests'[r].cacheKey.key)))
     /\ (last'.op = "generateCodeWithClaude") =>
         LET r == last'.r
             e == getCacheEntry(cache', requests[r].cacheKey.key)
         IN  /\ requests[r].pc = "generating"
             /\ e # Null
             /\ e.code = requests'[r].code
             /\ e.files = requests'[r].files
     /\ \A k \in {cache[i].key : i \in 1..Len(cache)} :
         (~MapHas(cache', k) => last'.op = "/cache/clear")]_vars

\* C15 witness: one request missed and had its result generated, and another
\* request with the same key was then served that result from the cache.
C15_Witness ==
  \E r1, r2 \in RequestIds :
    /\ requests[r1].pc = "done" /\ ~requests[r1].hit
    /\ requests[r2].pc = "done" /\ requests[r2].hit
    /\ requests[r1].cacheKey = requests[r2].cacheKey
    /\ requests[r1].code = requests[r2].code
    /\ requests[r1].files = requests[r2].files

\* C17: a generation that fails before completing leaves the cache exactly
\* as it was, and within the generation flow an entry is inserted or altered
\* only by the step in which a generation completes.
C17_FailureStoresNothing ==
  [][/\ \A r \in RequestIds :
         ((requests[r].pc = "generating" /\ requests'[r].pc = "error")
           => cache' = cache)
     /\ ((\E k \in {cache'[i].key : i \in 1..Len(cache')} :
            getCacheEntry(cache', k) # getCacheEntry(cache, k))
         => last'.op = "generateCodeWithClaude")]_vars

\* C17 witness: a generation failed while the cache held an entry under the
\* very key of the failed request, stored by a concurrent request.
C17_Witness ==
  /\ last.op = "generateCodeWithClaude throws"
  /\ requests[last.r].pc = "error"
  /\ MapHas(cache, requests[last.r].cacheKey.key)

\* C18: an entry stored under key k keeps its code, files, prompt, timestamp
\* and hash through every operation other than setCacheEntry on k and
\* clearCache, and it disappears only through clearCache.
C18_EntryFrame ==
  [][ \A k \in Keys :
        isCached(cache, k) =>
          /\ (/\ ~(last'.op = "setCacheEntry" /\ last'.cacheKey = k)
              /\ last'.op # "clearCache")
             => MapGet(cache', k) = MapGet(cache, k)
          /\ ~isCached(cache', k) => last'.op = "clearCache"
    ]_vars

\* C18 witness: a key was just set while the other key holds an entry stored
\* at an earlier time with other contents.
C18_Witness ==
  /\ last.op = "setCacheEntry"
  /\ Len(cache) = 2
  /\ \E i \in 1..2 :
       /\ cache[i].key # last.cacheKey
       /\ cache[i].value.timestamp < now
       /\ cache[i].value.code # last.ret.code

\* The timestamps of the entries stored in the cache.
Stamps == {cache[i].value.timestamp : i \in 1..Len(cache)}

\* C19: getCacheStats reports totalEntries = number of keys stored,
\* totalSessions = number of session logs, oldestEntry / newestEntry = the
\* least / greatest timestamp stored (oldestEntry <= newestEntry), both absent
\* exactly when the cache is empty.
C19_Stats ==
  last.op = "getCacheStats" =>
    /\ last.ret.totalEntries = Cardinality({cache[i].key : i \in 1..Len(cache)})
    /\ last.ret.totalSessions = Cardinality(DOMAIN sessionHistory)
    /\ (last.ret.oldestEntry = Null) <=> (cache = <<>>)
    /\ (last.ret.newestEntry = Null) <=> (cache = <<>>)
    /\ cache # <<>> =>
         /\ last.ret.oldestEntry.num \in Stamps
         /\ last.ret.newestEntry.num \in Stamps
         /\ \A u \in Stamps : /\ last.ret.oldestEntry.num <= u
                               /\ u <= last.ret.newestEntry.num
         /\ last.ret.oldestEntry.num <= last.ret.newestEntry.num

\* C19 witness: statistics were taken of a cache holding two entries stored at
\* different times.
C19_Witness ==
  /\ last.op = "getCacheStats"
  /\ last.ret.totalEntries = 2
  /\ last.ret.oldestEntry.num < last.ret.newestEntry.num

\* C19 witness of the session count: statistics taken while a session log
\* and a cache entry both exist.
C19_WitnessSessions ==
  /\ last.op = "getCacheStats"
  /\ last.ret.totalEntries = 1
  /\ last.ret.totalSessions = 1

\* --------------------------------------------------------- claims: diff
\* C20: for every text x, generateDiff(x, x) returns hasDifferences = false
\* and an empty change list.
C20_DiffIdentity ==
  (last.op = "generateDiff" /\ last.oldCode = last.newCode) =>
    /\ last.ret.hasDifferences = FALSE
    /\ last.ret.changes = <<>>

\* C20 witness: a text of two lines was compared with itself.
C20_Witness ==
  /\ last.op = "generateDiff"
  /\ last.oldCode = last.newCode
  /\ Len(split(last.oldCode, 1, <<>>)) = 2
  /\ last.ret.hasDifferences = FALSE

\* The lines of the two texts of the last generateDiff call, and the 0-based
\* indices at which they differ, a missing line reading as "".
OldLines == split(last.oldCode, 1, <<>>)
NewLines == split(last.newCode, 1, <<>>)
DifferAt ==
  {i \in 0..(MathMax({Len(OldLines), Len(NewLines)}) - 1) :
     lineAt(OldLines, i) # lineAt(NewLines, i)}

\* C21: for texts that are not identical generateDiff returns one change
\* record for each index at which the old and new lines differ and none for
\* any other index, in ascending order, with lineNumber = index + 1 and the
\* two lines as oldContent and newContent.
C21_ChangeRecords ==
  (last.op = "generateDiff" /\ last.oldCode # last.newCode) =>
    LET changes == last.ret.changes
    IN  /\ Len(changes) = Cardinality(DifferAt)
        /\ \A j \in 1..Len(changes) :
             /\ changes[j].lineNumber - 1 \in DifferAt
             /\ changes[j].oldContent =
                  lineAt(OldLines, changes[j].lineNumber - 1)
             /\ changes[j].newContent =
                  lineAt(NewLines, changes[j].lineNumber - 1)
        /\ \A j \in 1..(Len(changes) - 1) :
             changes[j].lineNumber < changes[j + 1].lineNumber

\* C21 witness: two texts of two lines that differ only in line 2 gave
\* exactly one record, at lineNumber 2.
C21_Witness ==
  /\ last.op = "generateDiff"
  /\ Len(OldLines) = 2 /\ Len(NewLines) = 2
  /\ OldLines[1] = NewLines[1] /\ OldLines[2] # NewLines[2]
  /\ Len(last.ret.changes) = 1
  /\ last.ret.changes[1].lineNumber = 2

\* The type generateDiff is to give the record at the 0-based index i.
TypeAt(i) ==
  IF lineAt(OldLines, i) = <<>> THEN "add"
  ELSE IF lineAt(NewLines, i) = <<>> THEN "remove"
  ELSE "modify"

\* lines is a proper prefix of more: more is lines with lines appended.
Appended(lines, more) ==
  /\ Len(lines) < Len(more)
  /\ SubSeq(more, 1, Len(lines)) = lines

\* The 0-based indices of the lines of more past the end of lines.
Extra(lines, more) == Len(lines)..(Len(more) - 1)

\* C22 as stated: a record's type is "add" exactly when the old line is empty
\* or missing, else "remove" exactly when the new line is empty or missing,
\* else "modify"; appending lines gives one "add" record per appended line,
\* with oldContent = "", and dropping trailing lines one "remove" record per
\* dropped line, with newContent = "".
C22_TypesPerLine ==
  last.op = "generateDiff" =>
    LET changes == last.ret.changes
    IN  /\ \A j \in 1..Len(changes) :
             changes[j].type = TypeAt(changes[j].lineNumber - 1)
        /\ Appended(OldLines, NewLines) =>
             /\ Len(changes) = Len(NewLines) - Len(OldLines)
             /\ \A j \in 1..Len(changes) :
                  changes[j].type = "add" /\ changes[j].oldContent = <<>>
        /\ Appended(NewLines, OldLines) =>
             /\ Len(changes) = Len(OldLines) - Len(NewLines)
             /\ \A j \in 1..Len(changes) :
                  changes[j].type = "remove" /\ changes[j].newContent = <<>>

\* C22 as amended: the same, with one "add" record per appended line that is
\* not empty and one "remove" record per dropped line that is not empty; an
\* appended or dropped empty line gives no record.
C22_TypesPerNonEmptyLine ==
  last.op = "generateDiff" =>
    LET changes == last.ret.changes
    IN  /\ \A j \in 1..Len(changes) :
             changes[j].type = TypeAt(changes[j].lineNumber - 1)
        /\ Appended(OldLines, NewLines) =>
             /\ {changes[j].lineNumber - 1 : j \in 1..Len(changes)} =
                  {i \in Extra(OldLines, NewLines) : NewLines[i + 1] # <<>>}
             /\ \A j \in 1..Len(changes) :
                  changes[j].type = "add" /\ changes[j].oldContent = <<>>
        /\ Appended(NewLines, OldLines) =>
             /\ {changes[j].lineNumber - 1 : j \in 1..Len(changes)} =
                  {i \in Extra(NewLines, OldLines) : OldLines[i + 1] # <<>>}
             /\ \A j \in 1..Len(changes) :
                  changes[j].type = "remove" /\ changes[j].newContent = <<>>

\* C22 witness: a line was dropped from the end of a text of two lines and
\* the one record is a "remove" at line 2.
C22_Witness ==
  /\ last.op = "generateDiff"
  /\ Appended(NewLines, OldLines)
  /\ Len(OldLines) = 2
  /\ Len(last.ret.changes) = 1
  /\ last.ret.changes[1].type = "remove"
  /\ last.ret.changes[1].lineNumber = 2

\* C23: every result of generateDiff, the one for identical texts included,
\* carries oldHash and newHash, the hashes of the two texts,
\* changedLinesCount, the number of change records, and totalLines, the
\* number of lines of the new text.
C23_ResultFields ==
  last.op = "generateDiff" =>
    /\ {"oldHash", "newHash", "changedLinesCount", "totalLines"}
         \subseteq DOMAIN last.ret
    /\ last.ret.oldHash = generateCodeHash(last.oldCode)
    /\ last.ret.newHash = generateCodeHash(last.newCode)
    /\ last.ret.changedLinesCount = Len(last.ret.changes)
    /\ last.ret.totalLines = Len(NewLines)

\* -------------------------------------------------- claims: file comparison
\* The paths of a file set, and the content a path has in it: that of its
\* last occurrence.
PathsOf(files) == {files[i].path : i \in 1..Len(files)}
ContentOf(files, p) ==
  files[MathMax({i \in 1..Len(files) : files[i].path = p})].content

\* The paths listed in the four categories of a comparison, one after the
\* other.
PathSeq(entries) == [j \in 1..Len(entries) |-> entries[j].path]
Listed(details) ==
  PathSeq(details.added) \o PathSeq(details.modified) \o
  PathSeq(details.removed) \o details.unchanged

\* C24: every path in the union of the two file sets' paths is listed in
\* exactly one of added, modified, removed and unchanged, exactly once, and
\* no other path is listed.
C24_Partition ==
  last.op = "compareFiles" =>
    LET listed == Listed(last.ret.details)
        union == PathsOf(last.oldFiles) \cup PathsOf(last.newFiles)
    IN  /\ {listed[j] : j \in 1..Len(listed)} = union
        /\ \A j, k \in 1..Len(listed) : listed[j] = listed[k] => j = k

\* C24 witness: two file sets of two paths, one path occurring twice in the
\* old set, were compared and both paths are listed.
C24_Witness ==
  /\ last.op = "compareFiles"
  /\ Len(last.oldFiles) = 2 /\ Cardinality(PathsOf(last.oldFiles)) = 1
  /\ Cardinality(PathsOf(last.newFiles)) = 2
  /\ Len(Listed(last.ret.details)) = 2

\* C25: a path is added iff it is in the new set only, removed iff it is in
\* the old set only, unchanged iff it is in both with the same content and
\* modified iff it is in both with different content; every modified entry
\* holds generateDiff of the path's old and new content.
C25_Classes ==
  last.op = "compareFiles" =>
    LET d == last.ret.details
        old == PathsOf(last.oldFiles)
        new == PathsOf(last.newFiles)
        In(entries) == {entries[j].path : j \in 1..Len(entries)}
        same(p) == ContentOf(last.oldFiles, p) = ContentOf(last.newFiles, p)
    IN  /\ In(d.added) = new \ old
        /\ In(d.removed) = old \ new
        /\ {d.unchanged[j] : j \in 1..Len(d.unchanged)} =
             {p \in old \cap new : same(p)}
        /\ In(d.modified) = {p \in old \cap new : ~same(p)}
        /\ \A j \in 1..Len(d.modified) :
             d.modified[j].diff =
               generateDiff(ContentOf(last.oldFiles, d.modified[j].path),
                            ContentOf(last.newFiles, d.modified[j].path))

\* C25 witness: one path was modified, with a diff that reports a
\* difference, and another was unchanged.
C25_Witness ==
  /\ last.op = "compareFiles"
  /\ Len(last.ret.details.modified) = 1
  /\ last.ret.details.modified[1].diff.hasDifferences
  /\ Len(last.ret.details.unchanged) = 1

\* C26: hasChanges is true iff one of added, modified and removed is not
\* empty, the four counts of the summary are the lengths of the four
\* categories, and their sum is the number of paths in the union.
C26_Summary ==
  last.op = "compareFiles" =>
    LET d == last.ret.details
        sm == last.ret.summary
    IN  /\ last.ret.hasChanges <=>
             (d.added # <<>> \/ d.modified # <<>> \/ d.removed # <<>>)
        /\ sm.addedCount = Len(d.added)
        /\ sm.modifiedCount = Len(d.modified)
        /\ sm.removedCount = Len(d.removed)
        /\ sm.unchangedCount = Len(d.unchanged)
        /\ sm.addedCount + sm.modifiedCount + sm.removedCount
             + sm.unchangedCount =
             Cardinality(PathsOf(last.oldFiles) \cup PathsOf(last.newFiles))

\* C26 witness: the only change was a removed file.
C26_Witness ==
  /\ last.op = "compareFiles"
  /\ last.ret.hasChanges
  /\ last.ret.summary.removedCount = 1
  /\ last.ret.summary.addedCount = 0
  /\ last.ret.summary.modifiedCount = 0
  /\ last.ret.summary.unchangedCount = 1

C28_OneGenerationPerKey ==
  \A r1, r2 \in RequestIds :
    (/\ r1 # r2
     /\ requests[r1].pc = "generating"
     /\ requests[r2].pc = "generating") =>
      requests[r1].cacheKey # requests[r2].cacheKey

\* ----------------------------------------------------- claims: frames
\* C29: addToHistory, undo and redo on a session change no other session's
\* log and no cache entry; setCacheEntry and clearCache, with or without an
\* age, change no session log; a session log once created is never removed,
\* and totalSessions never decreases.
C29_SessionsIsolated ==
  [][/\ last'.op \in {"addToHistory", "undo", "redo"} =>
          /\ cache' = cache
          /\ \A s \in DOMAIN sessionHistory \ {last'.sessionId} :
               /\ s \in DOMAIN sessionHistory'
               /\ sessionHistory'[s] = sessionHistory[s]
          /\ DOMAIN sessionHistory' \subseteq
               DOMAIN sessionHistory \cup {last'.sessionId}
     /\ last'.op \in {"setCacheEntry", "clearCache"} =>
          sessionHistory' = sessionHistory
     /\ DOMAIN sessionHistory \subseteq DOMAIN sessionHistory'
     /\ getCacheStats(cache', sessionHistory').totalSessions >=
          getCacheStats(cache, sessionHistory).totalSessions]_vars

\* C29 witness: clearCache with no age emptied a cache that held an entry
\* while a session log with an entry stayed.
C29_Witness ==
  /\ last.op = "clearCache" /\ last.olderThanMs = Null
  /\ last.before # <<>> /\ cache = <<>>
  /\ \E s \in DOMAIN sessionHistory : Len(sessionHistory[s].entries) = 1

\* C30: an undo that returns a version changes currentIndex by -1 and a
\* redo that returns one by +1; undo and redo never change the entries of
\* the session; only addToHistory on a session changes its entries.
C30_PointerOnly ==
  [][/\ (last'.op \in {"undo", "redo"}
         /\ last'.sessionId \in DOMAIN sessionHistory) =>
          LET old == sessionHistory[last'.sessionId]
              new == sessionHistory'[last'.sessionId]
          IN  /\ new.entries = old.entries
              /\ last'.ret # Null =>
                   new.currentIndex =
                     old.currentIndex + (IF last'.op = "undo" THEN -1 ELSE 1)
              /\ last'.ret = Null => new.currentIndex = old.currentIndex
     /\ \A s \in DOMAIN sessionHistory' :
          (IF s \in DOMAIN sessionHistory
           THEN sessionHistory'[s].entries # sessionHistory[s].entries
           ELSE TRUE)
          => (last'.op = "addToHistory" /\ last'.sessionId = s)]_vars

\* C30 witness: an undo returned the first of two versions and both are
\* still in the log.
C30_Witness ==
  /\ last.op = "undo" /\ last.ret # Null
  /\ Len(sessionHistory[last.sessionId].entries) = 2
  /\ sessionHistory[last.sessionId].currentIndex = 0
  /\ last.ret = sessionHistory[last.sessionId].entries[1]

\* ------------------------------------------------- claims: diff, hash
\* C31 as stated: generateDiff returns hasDifferences = true if and only if
\* its change list is not empty.
C31_DiffersIffChanges ==
  last.op = "generateDiff" =>
    (last.ret.hasDifferences <=> last.ret.changes # <<>>)

\* One of the two texts is the other with empty lines appended and nothing
\* else: they differ in trailing empty lines only.
TrailingEmptyOnly ==
  \/ /\ Appended(OldLines, NewLines)
     /\ \A i \in Extra(OldLines, NewLines) : NewLines[i + 1] = <<>>
  \/ /\ Appended(NewLines, OldLines)
     /\ \A i \in Extra(NewLines, OldLines) : OldLines[i + 1] = <<>>

\* C31 as amended: hasDifferences is true if and only if the change list is
\* not empty or the texts differ in trailing empty lines only; in that case
\* hasDifferences is true and the change list is empty.
C31_DiffersIffChangesOrTrailing ==
  last.op = "generateDiff" =>
    /\ last.ret.hasDifferences <=>
         (last.ret.changes # <<>> \/ TrailingEmptyOnly)
    /\ TrailingEmptyOnly => last.ret.changes = <<>>
    /\ last.ret.hasDifferences <=> (last.oldCode # last.newCode)

\* C31 witness: two texts that differ in both of their two lines gave two
\* change records and hasDifferences = true.
C31_Witness ==
  /\ last.op = "generateDiff"
  /\ Len(OldLines) = 2 /\ Len(NewLines) = 2
  /\ Len(last.ret.changes) = 2
  /\ last.ret.hasDifferences

\* The fold h := 31 * h + c wrapped to 32 bits, kept as four bytes
\* <<b3, b2, b1, b0>> of the two's complement pattern, over text from
\* position i on.
RECURSIVE Fold31(_, _, _)
Fold31(text, i, b) ==
  IF i > Len(text) THEN b
  ELSE LET t0 == 31 * b[4] + text[i]
           t1 == 31 * b[3] + (t0 \div 256)
           t2 == 31 * b[2] + (t1 \div 256)
           t3 == 31 * b[1] + (t2 \div 256)
       IN  Fold31(text, i + 1, <<t3 % 256, t2 % 256, t1 % 256, t0 % 256>>)

\* The signed value of four bytes is negative.
Negative(b) == b[1] >= 128

\* The absolute value of the signed value of four bytes, as four bytes of
\* an unsigned number: 2^31 for the pattern of -2^31.
Magnitude(b) ==
  IF ~Negative(b) THEN b
  ELSE LET n0 == (255 - b[4]) + 1
           n1 == (255 - b[3]) + (n0 \div 256)
           n2 == (255 - b[2]) + (n1 \div 256)
           n3 == (255 - b[1]) + (n2 \div 256)
       IN  <<n3 % 256, n2 % 256, n1 % 256, n0 % 256>>

\* The hexadecimal digits of four bytes, most significant first.
Nibbles(b) ==
  <<b[1] \div 16, b[1] % 16, b[2] \div 16, b[2] % 16,
    b[3] \div 16, b[3] % 16, b[4] \div 16, b[4] % 16>>

\* The hexadecimal form of the digits from position i on, leading zeros
\* dropped while lead holds; "0" for the number zero.
RECURSIVE Hex(_, _, _)
Hex(digits, i, lead) ==
  IF i > Len(digits) THEN (IF lead THEN "0" ELSE "")
  ELSE IF lead /\ digits[i] = 0 THEN Hex(digits, i + 1, TRUE)
  ELSE HexDigits[digits[i] + 1] \o Hex(digits, i + 1, FALSE)

\* C32: generateCodeHash folds each character code c into h, from h = 0, as
\* h := 31 * h + c wrapped to a signed 32-bit integer and returns the
\* hexadecimal form of |h|; the empty string hashes to "0", and the value of
\* every digest lies in 0..2^31.
C32_HashFold ==
  last.op = "generateCodeHash" =>
    LET m == Magnitude(Fold31(last.code, 1, <<0, 0, 0, 0>>))
    IN  /\ last.ret = Hex(Nibbles(m), 1, TRUE)
        /\ last.code = <<>> => last.ret = "0"
        /\ m[1] < 128 \/ m = <<128, 0, 0, 0>>

\* C32 witness: a text of at least five code units whose fold wrapped
\* around to a negative value was hashed.
C32_Witness ==
  /\ last.op = "generateCodeHash"
  /\ Len(last.code) >= 5
  /\ Negative(Fold31(last.code, 1, <<0, 0, 0, 0>>))
  /\ last.ret # "0"

\* The set of the paths of a list of entries, and of a list of paths.
PathSet(entries) == {entries[j].path : j \in 1..Len(entries)}
Range(paths) == {paths[j] : j \in 1..Len(paths)}

\* C33: compareFiles(A, B) and compareFiles(B, A) are mirror images, the
\* paths added in one being the paths removed in the other and the modified
\* and unchanged paths being the same; compareFiles(A, A) has hasChanges
\* false and every path unchanged.
C33_Mirror ==
  last.op = "compareFiles" =>
    LET there == last.ret.details
        back == compareFiles(last.newFiles, last.oldFiles).details
    IN  /\ PathSet(there.added) = PathSet(back.removed)
        /\ PathSet(there.removed) = PathSet(back.added)
        /\ PathSet(there.modified) = PathSet(back.modified)
        /\ Range(there.unchanged) = Range(back.unchanged)
        /\ last.oldFiles = last.newFiles =>
             /\ ~last.ret.hasChanges
             /\ Range(there.unchanged) = PathsOf(last.oldFiles)

\* C33 witness: a comparison with one path removed and one modified, which
\* the comparison the other way round reports as added and modified.
C33_Witness ==
  /\ last.op = "compareFiles"
  /\ Len(last.ret.details.removed) = 1
  /\ Len(last.ret.details.modified) = 1
  /\ Len(compareFiles(last.newFiles, last.oldFiles).details.added) = 1

\* The paths that occur more than once in a file set.
Repeated(files) ==
  {files[i].path : i \in {k \in 1..Len(files) :
                            \E j \in 1..Len(files) :
                              j # k /\ files[j].path = files[k].path}}

\* C34: a path that occurs more than once in a file set passed to
\* compareFiles is listed exactly once, and the content compared and
\* reported for it is that of its last occurrence.
C34_LastOccurrence ==
  last.op = "compareFiles" =>
    LET d == last.ret.details
        listed == Listed(d)
    IN  \A p \in Repeated(last.oldFiles) \cup Repeated(last.newFiles) :
          /\ Cardinality({j \in 1..Len(listed) : listed[j] = p}) = 1
          /\ \A j \in 1..Len(d.added) :
               d.added[j].path = p =>
                 d.added[j].content = ContentOf(last.newFiles, p)
          /\ \A j \in 1..Len(d.removed) :
               d.removed[j].path = p =>
                 d.removed[j].content = ContentOf(last.oldFiles, p)
          /\ \A j \in 1..Len(d.modified) :
               d.modified[j].path = p =>
                 /\ d.modified[j].oldContent = ContentOf(last.oldFiles, p)
                 /\ d.modified[j].newContent = ContentOf(last.newFiles, p)
                 /\ d.modified[j].oldContent # d.modified[j].newContent
          /\ \A j \in 1..Len(d.unchanged) :
               d.unchanged[j] = p =>
                 ContentOf(last.oldFiles, p) = ContentOf(last.newFiles, p)

\* C34 witness: the old set held one path twice with two contents, the new
\* set held it with the second of them, and the path is unchanged.
C34_Witness ==
  /\ last.op = "compareFiles"
  /\ Len(last.oldFiles) = 2
  /\ last.oldFiles[1].path = last.oldFiles[2].path
  /\ last.oldFiles[1].content # last.oldFiles[2].content
  /\ Len(last.newFiles) = 1
  /\ last.newFiles[1].content = last.oldFiles[2].content
  /\ last.ret.details.unchanged = <<last.oldFiles[1].path>>

\* ------------------------------------------------ claims: input component
\* The step was taken by call g of handleGenerate, or by the server on the
\* request of call g.
StepOfCall(g) == "g" \in DOMAIN last' /\ last'.g = g
StepOfRequest(r) == "r" \in DOMAIN last' /\ last'.r = r
\* Call g was made with an archive.
Upgrade(g) ==
  /\ inputComponent.calls[g].pc # "idle"
  /\ inputComponent.calls[g].zipFiles > 0

\* C35: a project-upgrade request never touches the response cache: no step
\* of the server on it and no step of the call of handleGenerate that made
\* it changes the cache, the server never answers it from the cache, and
\* the call neither checks the cache nor stores in it.
C35_UpgradeLeavesCache ==
  [][\A g \in RequestIds :
       /\ (StepOfRequest(g) /\ Upgrade(g)) =>
            /\ cache' = cache
            /\ "hit" \in DOMAIN requests'[g] => ~requests'[g].hit
       /\ (StepOfCall(g) /\ inputComponent'.calls[g].pc # "idle"
             /\ inputComponent'.calls[g].zipFiles > 0) =>
            /\ cache' = cache
            /\ inputComponent'.calls[g].pc \notin {"checking", "storing"}
            /\ last'.op \notin {"checkCache", "storeInCache"}]_vars

\* C35 witness: a call with an archive has ended with the generated code in
\* the editor, while the cache holds an entry under the key that
\* /generate-stream makes of the same prompt.
C35_Witness ==
  \E g \in RequestIds :
    /\ inputComponent.calls[g].pc = "done"
    /\ inputComponent.calls[g].zipFiles > 0
    /\ requests[g].pc = "done"
    /\ inputComponent.calls[g].generatedCode # <<>>
    /\ generateCacheKey(inputComponent.calls[g].prompt, NoImages) # Thrown
    /\ isCached(cache, generateCacheKey(inputComponent.calls[g].prompt,
                                        NoImages).key)

\* Call g was stopped: handleStopGeneration aborted its controller.
Stopped(g) == g \in inputComponent.aborted

\* C36: once handleStopGeneration has stopped a call of handleGenerate, no
\* step of that call writes code into the editor, stores in the cache, or
\* clears the loading flag or the controller of a call made later.
C36_StoppedIsSilent ==
  [][\A g \in RequestIds :
       (StepOfCall(g) /\ Stopped(g)) =>
         /\ inputComponent'.code = inputComponent.code
         /\ cache' = cache
         /\ inputComponent.abortControllerRef \notin
               {Null, AbortController(g)} =>
               /\ inputComponent'.loading = inputComponent.loading
               /\ inputComponent'.abortControllerRef =
                    inputComponent.abortControllerRef]_vars

====
